---- MODULE Spec2Model ----
(***************************************************************************)
(* Topology tracker of lysergic: the heap-backed Topology class            *)
(* (src/src/ast/nodes.ts) and the array-backed Lysergic engine             *)
(* (src/src/index.ts).  A behaviour is the life of one network object:     *)
(* `impl` says which class the client instantiated, and every step is one  *)
(* call of its public API.  Unit arguments range over the units that       *)
(* exist when the call is made.                                            *)
(***************************************************************************)
EXTENDS Integers, Sequences, FiniteSets, TLC

VARIABLES impl, topology, engine, allocator, ast, call, calls

vars == <<impl, topology, engine, allocator, ast, call, calls>>

\* ---------------------------------------------------------------- bounds
MaxCalls == 3
MaxUnits == 3
MaxLayerSize == 2
MaxLayers == 3

\* ------------------------------------------------------- values and inputs
\* Cell values are numbers >= 0; the three values below are not numbers and are
\* encoded under 0 so that a cell and a unit id always compare.
Null == 0 - 1
Undefined == 0 - 2
\* a value drawn from the random generator (Lysergic.RandomGenerator)
Random == 0 - 3
\* the number 0.1, the learning rate of a new engine
DefaultLearningRate == 0 - 4
IsNumber(v) == v >= 0 \/ v \in {Random, DefaultLearningRate}
\* the tag of a Variable that has none (null)
NoTag == "null"
\* what is unwinding a call: nothing, a runtime TypeError, a thrown Error
NoException == "none"
TypeError == "TypeError"
NotDeclared == "Error: is not declared"
\* weights a caller supplies to addConnection; Null is "argument absent"
Weights == {Null, 5}
LOGISTIC_SIGMOID == "LOGISTIC_SIGMOID"
ActivationKinds == {LOGISTIC_SIGMOID}

\* ------------------------------------------------------- array helpers
Range(s) == {s[x] : x \in DOMAIN s}

\* a[k] = v on a JS array / object: creates the slot when it is missing
Put(a, k, v) == [x \in (DOMAIN a) \cup {k} |-> IF x = k THEN v ELSE a[x]]

\* a[k] read from a JS array: undefined when the slot is missing
Get(a, k) == IF k \in DOMAIN a THEN a[k] ELSE Undefined

\* variant with a slip: the list is always read as empty
GetOrEmpty_Empty(a, k) == << >>

\* `a[k] || []`
GetOrEmpty(a, k) == IF k \in DOMAIN a THEN a[k] ELSE << >>

RECURSIVE SortedSeq(_)
SortedSeq(S) ==
  IF S = {} THEN << >>
  ELSE LET m == CHOOSE x \in S : \A y \in S : x <= y
       IN <<m>> \o SortedSeq(S \ {m})

RECURSIVE ConcatAll(_)
ConcatAll(ss) == IF Len(ss) = 0 THEN << >> ELSE Head(ss) \o ConcatAll(Tail(ss))

\* arr.map(f) is written [x \in 1..Len(arr) |-> f(arr[x])] where it is used

\* distinct(...arrays): every value becomes a key of an object, and the
\* integer keys of an object are enumerated in ascending order
distinct(arr) == SortedSeq(Range(arr))


\* variant with a slip: the flag value 1 is read as false too
Falsy_One(v) == v \in {0 - 1, 0 - 2, 0, 1}

\* JS truthiness of a cell value, and `value || 0`
Falsy(v) == v \in {Null, Undefined, 0}
OrZero(v) == IF Falsy(v) THEN 0 ELSE v

\* ------------------------------------------------------------------ Heap
\* Heap.variables is a dictionary in insertion order: a sequence of Variable
\* records.  A key `name[i][j]` is the tuple <<name, i, j>>.
NewHeap == [allocationCount |-> 0, variables |-> << >>]

\* the names every plain object inherits from Object.prototype: `key in {}` is
\* true for them although no Variable was ever stored under them
ObjectPrototype == {<<"constructor">>}
Inherited(key) == key \in ObjectPrototype

HeapIndexOf(heap, key) ==
  IF \E x \in 1..Len(heap.variables) : heap.variables[x].key = key
  THEN CHOOSE x \in 1..Len(heap.variables) : heap.variables[x].key = key
  ELSE 0

Heap_hasVariable(heap, key) == HeapIndexOf(heap, key) # 0 \/ Inherited(key)

\* Heap.alloc.  For an inherited name no Variable is created and the
\* initialValue lands on the inherited object, outside the heap.
Heap_alloc(heap, key, value, tag) ==
  IF Inherited(key) THEN heap ELSE
  LET h1 == IF Heap_hasVariable(heap, key) THEN heap
            ELSE [allocationCount |-> heap.allocationCount + 1,
                  variables |-> Append(heap.variables,
                                  [id |-> heap.allocationCount, key |-> key,
                                   initialValue |-> value, tag |-> tag])]
      x == HeapIndexOf(h1, key)
  IN [h1 EXCEPT !.variables[x].initialValue = OrZero(value)]

\* Heap.setVariable(key, ...indexes, value)
Heap_setVariable(heap, key, value) == Heap_alloc(heap, key, value, NoTag)

\* Heap.getVariable(key, ...indexes).initialValue; Undefined stands for the
\* "is not declared" error of a key that was never allocated
Heap_getVariable(heap, key) ==
  IF HeapIndexOf(heap, key) # 0
  THEN heap.variables[HeapIndexOf(heap, key)].initialValue
  ELSE Undefined

\* setVariable over a list of keys, in order, with one value (the forEach
\* loops of Topology.track)
RECURSIVE setVariables(_, _, _)
setVariables(heap, keys, value) ==
  IF Len(keys) = 0 THEN heap
  ELSE setVariables(Heap_setVariable(heap, Head(keys), value), Tail(keys), value)

\* ------------------------------------------------- connection / gate lists
Connection(from, to) == [from |-> from, to |-> to]
Gate(from, to, gater) == [from |-> from, to |-> to, gater |-> gater]

\* connections.some(c => c.from === from && c.to === to)
someConnection(connections, from, to) ==
  \E x \in 1..Len(connections) : connections[x].from = from /\ connections[x].to = to

\* gates.some(g => g.from === from && g.to === to)
someGate(gates, from, to) ==
  \E x \in 1..Len(gates) : gates[x].from = from /\ gates[x].to = to

\* gates.some(g => g.to === to && g.from === from && g.gater === gater)
someGateBy(gates, from, to, gater) ==
  \E x \in 1..Len(gates) :
     gates[x].from = from /\ gates[x].to = to /\ gates[x].gater = gater

\* variant with a slip: the inputs are filtered on connection.from
TrackInputsOf_FilterOnFrom(connections, unit) ==
  LET f == SelectSeq(connections, LAMBDA c : c.from = unit)
  IN distinct([x \in 1..Len(f) |-> f[x].from])

\* the four base adjacency arrays of track(unit)
TrackInputsOf(connections, unit) ==
  LET f == SelectSeq(connections, LAMBDA c : c.to = unit)
  IN distinct([x \in 1..Len(f) |-> f[x].from])

TrackProjectedBy(connections, unit) ==
  LET f == SelectSeq(connections, LAMBDA c : c.from = unit)
  IN distinct([x \in 1..Len(f) |-> f[x].to])

TrackGatersOf(gates, unit) ==
  LET f == SelectSeq(gates, LAMBDA g : g.to = unit)
  IN distinct([x \in 1..Len(f) |-> f[x].gater])

TrackGatedBy(gates, unit) ==
  LET f == SelectSeq(gates, LAMBDA g : g.gater = unit)
  IN distinct([x \in 1..Len(f) |-> f[x].to])

\* variant with a slip: only the loop over the gaters of unit is run
TrackExtendedTriples_OnlyGaters(n, unit) ==
  ConcatAll([x \in 1..Len(n.gatersOf[unit]) |->
    LET j == n.gatersOf[unit][x]
    IN [y \in 1..Len(n.inputsOf[j]) |-> <<j, n.inputsOf[j][y], unit>>]])

\* the (j, i, k) index triples of the three extended-trace loops of track(unit),
\* in the order the loops visit them; n is the network with its base arrays
\* already recomputed for unit
TrackExtendedTriples(n, unit) ==
  LET forJ == ConcatAll([x \in 1..Len(n.inputsOf[unit]) |->
                [y \in 1..Len(n.gatedBy[unit]) |->
                   <<unit, n.inputsOf[unit][x], n.gatedBy[unit][y]>>]])
      forI == ConcatAll([x \in 1..Len(n.projectedBy[unit]) |->
                LET j == n.projectedBy[unit][x]
                IN [y \in 1..Len(n.gatedBy[j]) |-> <<j, unit, n.gatedBy[j][y]>>]])
      forK == ConcatAll([x \in 1..Len(n.gatersOf[unit]) |->
                LET j == n.gatersOf[unit][x]
                IN [y \in 1..Len(n.inputsOf[j]) |-> <<j, n.inputsOf[j][y], unit>>]])
  IN forJ \o forI \o forK

\* the (k, j, i) index triples of the two inputsOfGatedBy loops of track(unit)
TrackGatedTriples(n, unit) ==
  LET ofUnit == ConcatAll([x \in 1..Len(n.inputsOf[unit]) |->
                  [y \in 1..Len(n.gatersOf[unit]) |->
                     <<unit, n.gatersOf[unit][y], n.inputsOf[unit][x]>>]])
      byUnit == ConcatAll([x \in 1..Len(n.gatedBy[unit]) |->
                  LET k == n.gatedBy[unit][x]
                  IN [y \in 1..Len(n.inputsOf[k]) |-> <<k, unit, n.inputsOf[k][y]>>]])
  IN ofUnit \o byUnit

\* variant with a slip: the gate filter leaves out gate.from === i
RECURSIVE TrackInputsOfGatedBy_AnyFrom(_, _, _)
TrackInputsOfGatedBy_AnyFrom(inputsOfGatedBy, triples, gates) ==
  IF Len(triples) = 0 THEN inputsOfGatedBy
  ELSE LET k == Head(triples)[1]
           j == Head(triples)[2]
           f == SelectSeq(gates, LAMBDA g : g.gater = j /\ g.to = k)
           froms == [x \in 1..Len(f) |-> f[x].from]
           slot == distinct(GetOrEmpty(inputsOfGatedBy[k], j) \o froms)
       IN TrackInputsOfGatedBy_AnyFrom(
            Put(inputsOfGatedBy, k, Put(inputsOfGatedBy[k], j, slot)),
            Tail(triples), gates)

\* variant with a slip: every input i of k is listed, gated by j or not
RECURSIVE TrackInputsOfGatedBy_AllInputs(_, _, _)
TrackInputsOfGatedBy_AllInputs(inputsOfGatedBy, triples, gates) ==
  IF Len(triples) = 0 THEN inputsOfGatedBy
  ELSE LET k == Head(triples)[1]
           j == Head(triples)[2]
           i == Head(triples)[3]
           slot == distinct(GetOrEmpty(inputsOfGatedBy[k], j) \o <<i>>)
       IN TrackInputsOfGatedBy_AllInputs(
            Put(inputsOfGatedBy, k, Put(inputsOfGatedBy[k], j, slot)),
            Tail(triples), gates)

\* inputsOfGatedBy[k][j] = distinct(inputsOfGatedBy[k][j], gates.filter(gate =>
\*   gate.gater === j && gate.to === k && gate.from === i).map(gate => gate.from))
\* for every triple, in order
RECURSIVE TrackInputsOfGatedBy(_, _, _)
TrackInputsOfGatedBy(inputsOfGatedBy, triples, gates) ==
  IF Len(triples) = 0 THEN inputsOfGatedBy
  ELSE LET k == Head(triples)[1]
           j == Head(triples)[2]
           i == Head(triples)[3]
           f == SelectSeq(gates, LAMBDA g : g.gater = j /\ g.to = k /\ g.from = i)
           froms == [x \in 1..Len(f) |-> f[x].from]
           slot == distinct(GetOrEmpty(inputsOfGatedBy[k], j) \o froms)
       IN TrackInputsOfGatedBy(
            Put(inputsOfGatedBy, k, Put(inputsOfGatedBy[k], j, slot)),
            Tail(triples), gates)

\* the (k, j) index pairs of the two derivative-term loops of track(unit)
TrackDerivativePairs(n, unit) ==
  [x \in 1..Len(n.gatedBy[unit]) |-> <<n.gatedBy[unit][x], unit>>]
  \o [x \in 1..Len(n.gatersOf[unit]) |-> <<unit, n.gatersOf[unit][x]>>]

TrackInputSet(inputsOf, unit) == SelectSeq(inputsOf, LAMBDA input : input # unit)
\* variant with a slip: >= lets the unit itself into its projection set
TrackProjectionSet_NotStrict(projectedBy, unit) ==
  SelectSeq(projectedBy, LAMBDA projected : projected >= unit)
TrackProjectionSet(projectedBy, unit) ==
  SelectSeq(projectedBy, LAMBDA projected : projected > unit)
TrackGateSet(gatedBy, unit) == SelectSeq(gatedBy, LAMBDA gated : gated > unit)

\* -------------------------------------------------------------- Topology
\* the fields of a Topology before its constructor body runs
TopologyFields ==
  [heap |-> NewHeap, biasUnit |-> Null,
   inputsOf |-> << >>, projectedBy |-> << >>, gatersOf |-> << >>, gatedBy |-> << >>,
   inputsOfGatedBy |-> << >>, projectionSet |-> << >>, gateSet |-> << >>,
   inputSet |-> << >>, connections |-> << >>, gates |-> << >>, layers |-> << >>,
   activationFunction |-> << >>, units |-> 0]

\* Topology.track(unit)
Topology_track(t, unit) ==
  LET traces(triples) ==
        [x \in 1..Len(triples) |->
           <<"extendedElegibilityTrace", triples[x][1], triples[x][2], triples[x][3]>>]
      terms(pairs) ==
        [x \in 1..Len(pairs) |-> <<"derivativeTerm", pairs[x][1], pairs[x][2]>>]
      tracked(t1) ==
        [t1 EXCEPT
           !.heap =
              setVariables(
                setVariables(@, traces(TrackExtendedTriples(t1, unit)), 0),
                terms(SelectSeq(TrackDerivativePairs(t1, unit),
                                LAMBDA p : someGateBy(t1.gates, p[1], p[1], p[2]))),
                1),
           !.inputsOfGatedBy =
              TrackInputsOfGatedBy(@, TrackGatedTriples(t1, unit), t1.gates),
           !.inputSet = Put(@, unit, TrackInputSet(t1.inputsOf[unit], unit)),
           !.projectionSet = Put(@, unit, TrackProjectionSet(t1.projectedBy[unit], unit)),
           !.gateSet = Put(@, unit, TrackGateSet(t1.gatedBy[unit], unit))]
  IN tracked([t EXCEPT
                !.inputsOf = Put(@, unit, TrackInputsOf(t.connections, unit)),
                !.projectedBy = Put(@, unit, TrackProjectedBy(t.connections, unit)),
                !.gatersOf = Put(@, unit, TrackGatersOf(t.gates, unit)),
                !.gatedBy = Put(@, unit, TrackGatedBy(t.gates, unit))])

\* variant with a slip: no early return for a pair that already exists
Topology_addConnection_NoCheck(t, from, to, weight) ==
  LET isSelfConnection == (from = to)
      h1 == Heap_setVariable(t.heap, <<"gain", to, from>>, 1)
      h2 == Heap_setVariable(h1, <<"gradient", to, from>>, 0)
      h3 == Heap_setVariable(h2, <<"weight", to, from>>,
                             IF isSelfConnection THEN 1 ELSE weight)
      h4 == Heap_setVariable(h3, <<"elegibilityTrace", to, from>>, 0)
  IN Topology_track(
       Topology_track([t EXCEPT !.connections = Append(@, Connection(from, to)),
                                !.heap = h4], to),
       from)

\* variant with a slip: the elegibility trace of the connection is not allocated
Topology_addConnection_NoTrace(t, from, to, weight) ==
  IF someConnection(t.connections, from, to) THEN t
  ELSE LET isSelfConnection == (from = to)
           h1 == Heap_setVariable(t.heap, <<"gain", to, from>>, 1)
           h2 == Heap_setVariable(h1, <<"gradient", to, from>>, 0)
           h3 == Heap_setVariable(h2, <<"weight", to, from>>,
                                  IF isSelfConnection THEN 1 ELSE weight)
       IN Topology_track(
            Topology_track([t EXCEPT !.connections = Append(@, Connection(from, to)),
                                     !.heap = h3], to),
            from)

\* Topology.addConnection(from, to, weight)
Topology_addConnection(t, from, to, weight) ==
  IF someConnection(t.connections, from, to) THEN t
  ELSE LET isSelfConnection == (from = to)
           h1 == Heap_setVariable(t.heap, <<"gain", to, from>>, 1)
           h2 == Heap_setVariable(h1, <<"gradient", to, from>>, 0)
           h3 == Heap_setVariable(h2, <<"weight", to, from>>,
                                  IF isSelfConnection THEN 1 ELSE weight)
           h4 == Heap_setVariable(h3, <<"elegibilityTrace", to, from>>, 0)
       IN Topology_track(
            Topology_track([t EXCEPT !.connections = Append(@, Connection(from, to)),
                                     !.heap = h4], to),
            from)

\* variant with a slip: the gater is not tracked
Topology_addGate_GaterUntracked(t, from, to, gater) ==
  LET alreadyGated == someGate(t.gates, from, to)
      isBias == (from = t.biasUnit)
  IN IF alreadyGated \/ isBias THEN t
     ELSE Topology_track(
            Topology_track([t EXCEPT !.gates = Append(@, Gate(from, to, gater))], to),
            from)

\* variant with a slip: a connection from the bias unit is gated like any other
Topology_addGate_BiasGated(t, from, to, gater) ==
  LET alreadyGated == someGate(t.gates, from, to)
  IN IF alreadyGated THEN t
     ELSE Topology_track(
            Topology_track(
              Topology_track([t EXCEPT !.gates = Append(@, Gate(from, to, gater))], to),
              from),
            gater)

\* Topology.addGate(from, to, gater)
Topology_addGate(t, from, to, gater) ==
  LET alreadyGated == someGate(t.gates, from, to)
      isBias == (from = t.biasUnit)
  IN IF alreadyGated \/ isBias THEN t
     ELSE Topology_track(
            Topology_track(
              Topology_track([t EXCEPT !.gates = Append(@, Gate(from, to, gater))], to),
              from),
            gater)

\* Topology.addUnit({bias, activationFunction}); the new unit's id is t.units
Topology_addUnit(t, bias, activationFunction) ==
  LET unit == t.units
      h == setVariables(
             setVariables(
               setVariables(t.heap,
                 << <<"state", unit>>, <<"activation", unit>>, <<"derivative", unit>> >>, 0),
               << <<"gain", unit, unit>> >>, 1),
             << <<"elegibilityTrace", unit, unit>>, <<"errorResponsibility", unit>>,
                <<"projectedErrorResponsibility", unit>>,
                <<"gatedErrorResponsibility", unit>> >>, 0)
      biased(t1) ==
        IF bias THEN Topology_addConnection(t1, t1.biasUnit, unit, 1) ELSE t1
  IN biased([t EXCEPT
               !.units = @ + 1,
               !.inputsOf = Put(@, unit, << >>),
               !.projectedBy = Put(@, unit, << >>),
               !.gatersOf = Put(@, unit, << >>),
               !.gatedBy = Put(@, unit, << >>),
               !.inputsOfGatedBy = Put(@, unit, << >>),
               !.inputSet = Put(@, unit, << >>),
               !.projectionSet = Put(@, unit, << >>),
               !.gateSet = Put(@, unit, << >>),
               !.activationFunction = Put(@, unit, activationFunction),
               !.heap = h])


\* Topology.addLayer(size, options)
RECURSIVE Topology_addLayerUnits(_, _, _, _, _)
Topology_addLayerUnits(t, layer, size, bias, activationFunction) ==
  IF Len(layer) = size THEN [t EXCEPT !.layers = Append(@, layer)]
  ELSE Topology_addLayerUnits(Topology_addUnit(t, bias, activationFunction),
                              Append(layer, t.units), size, bias, activationFunction)

Topology_addLayer(t, size, bias, activationFunction) ==
  Topology_addLayerUnits(t, << >>, size, bias, activationFunction)

\* new Topology({heap})
Topology_constructor ==
  LET biasUnit == TopologyFields.units
  IN [Topology_addUnit(TopologyFields, FALSE, LOGISTIC_SIGMOID) EXCEPT
        !.biasUnit = biasUnit,
        !.heap = Heap_setVariable(
                   Heap_setVariable(@, <<"state", biasUnit>>, 1),
                   <<"activation", biasUnit>>, 1)]

\* -------------------------------------------------------------- Lysergic
\* the fields of a Lysergic engine before its constructor body runs.
\* `proxies` records which array slots lock() replaced by a Proxy onto
\* `memory` (the key prefix of the slot |-> the length it captured); the
\* slot itself then holds the Proxy's empty target.  `exception` is the
\* error that is unwinding the running call, NoException between calls.
\* `strict` is whether the build runs the class as strict-mode code.
LysergicFields ==
  [state |-> << >>, weight |-> << >>, gain |-> << >>, activation |-> << >>,
   derivative |-> << >>, elegibilityTrace |-> << >>,
   extendedElegibilityTrace |-> << >>, errorResponsibility |-> << >>,
   projectedErrorResponsibility |-> << >>, gatedErrorResponsibility |-> << >>,
   activationFunction |-> << >>, derivativeTerm |-> << >>,
   inputsOf |-> << >>, projectedBy |-> << >>, gatersOf |-> << >>, gatedBy |-> << >>,
   inputsOfGatedBy |-> << >>, projectionSet |-> << >>, gateSet |-> << >>,
   inputSet |-> << >>, connections |-> << >>, gates |-> << >>,
   layers |-> << >>, size |-> 0, biasUnit |-> Null,
   locked |-> FALSE, allocCount |-> 0, memory |-> << >>, variables |-> << >>,
   inputs |-> << >>, outputs |-> << >>, targets |-> << >>,
   AST |-> << >>, proxies |-> << >>, exception |-> NoException,
   strict |-> FALSE]

\* the index in variables of a key, 0 when `variables[key]` is undefined
VariableIndexOf(variables, key) ==
  IF \E x \in 1..Len(variables) : variables[x].key = key
  THEN CHOOSE x \in 1..Len(variables) : variables[x].key = key
  ELSE 0

\* the statements after a throw do not run
Running(e) == e.exception = NoException

\* the `set` trap of a Proxy made by proxyDimensions: the value goes to the
\* memory cell of `id[prop]` when that variable exists and nowhere otherwise.
\* The trap returns undefined, so the assignment that invoked it is a
\* TypeError in strict-mode code and completes silently in sloppy-mode code.
ProxySet(e, key, newValue) ==
  LET x == VariableIndexOf(e.variables, key)
      e1 == IF x # 0
            THEN [e EXCEPT !.memory = Put(@, e.variables[x].id, newValue)]
            ELSE e
  IN IF e.strict THEN [e1 EXCEPT !.exception = TypeError] ELSE e1

\* this.<name>[k] = v
Set1(e, name, k, v) ==
  IF ~Running(e) THEN e
  ELSE IF <<name>> \in DOMAIN e.proxies THEN ProxySet(e, <<name, k>>, v)
  ELSE [e EXCEPT ![name] = Put(@, k, v)]

\* an assignment through a slot that holds undefined is a TypeError
Throws(e) == [e EXCEPT !.exception = TypeError]

\* this.<name>[j][i] = v
Set2(e, name, j, i, v) ==
  IF ~Running(e) THEN e
  ELSE IF <<name, j>> \in DOMAIN e.proxies THEN ProxySet(e, <<name, j, i>>, v)
  ELSE IF j \notin DOMAIN e[name] THEN Throws(e)
  ELSE [e EXCEPT ![name] = Put(@, j, Put(@[j], i, v))]

\* this.<name>[j][i][k] = v
Set3(e, name, j, i, k, v) ==
  IF ~Running(e) THEN e
  ELSE IF <<name, j, i>> \in DOMAIN e.proxies THEN ProxySet(e, <<name, j, i, k>>, v)
  ELSE IF j \notin DOMAIN e[name] THEN Throws(e)
  ELSE IF i \notin DOMAIN e[name][j] THEN Throws(e)
  ELSE [e EXCEPT ![name] = Put(@, j, Put(@[j], i, Put(@[j][i], k, v)))]

\* the proxies left after the slots under `prefix` were replaced by new arrays
Unproxied(proxies, prefix) ==
  LET keep == {q \in DOMAIN proxies :
                 ~(Len(q) >= Len(prefix) /\ SubSeq(q, 1, Len(prefix)) = prefix)}
  IN [q \in keep |-> proxies[q]]

\* this.<name>[j] = [] on a two- or three-dimensional array
SetRow(e, name, j) ==
  IF ~Running(e) THEN e
  ELSE [e EXCEPT ![name] = Put(@, j, << >>),
                 !.proxies = Unproxied(@, <<name, j>>)]

\* this.<name>[j][i] = [] on a three-dimensional array
SetRow2(e, name, j, i) ==
  IF ~Running(e) THEN e
  ELSE IF j \notin DOMAIN e[name] THEN Throws(e)
  ELSE [e EXCEPT ![name] = Put(@, j, Put(@[j], i, << >>)),
                 !.proxies = Unproxied(@, <<name, j, i>>)]

\* this.extendedElegibilityTrace[j][i][k] = 0 for every triple, in order
RECURSIVE TrackExtendedTraces(_, _)
TrackExtendedTraces(e, triples) ==
  IF Len(triples) = 0 THEN e
  ELSE TrackExtendedTraces(
         Set3(e, "extendedElegibilityTrace",
              Head(triples)[1], Head(triples)[2], Head(triples)[3], 0),
         Tail(triples))

\* variant with a slip: the test leaves out gate.gater === j
RECURSIVE TrackDerivativeTerms_AnyGater(_, _, _)
TrackDerivativeTerms_AnyGater(derivativeTerm, pairs, gates) ==
  IF Len(pairs) = 0 THEN derivativeTerm
  ELSE LET k == Head(pairs)[1]
           j == Head(pairs)[2]
           v == IF someGate(gates, k, k) THEN 1 ELSE 0
       IN TrackDerivativeTerms_AnyGater(
            Put(derivativeTerm, k, Put(derivativeTerm[k], j, v)), Tail(pairs), gates)

\* this.derivativeTerm[k][j] = gates.some(gate => gate.to === k &&
\*   gate.from === k && gate.gater === j) ? 1 : 0 for every pair, in order
RECURSIVE TrackDerivativeTerms(_, _, _)
TrackDerivativeTerms(derivativeTerm, pairs, gates) ==
  IF Len(pairs) = 0 THEN derivativeTerm
  ELSE LET k == Head(pairs)[1]
           j == Head(pairs)[2]
           v == IF someGateBy(gates, k, k, j) THEN 1 ELSE 0
       IN TrackDerivativeTerms(Put(derivativeTerm, k, Put(derivativeTerm[k], j, v)),
                               Tail(pairs), gates)

\* Lysergic.track(unit)
Lysergic_track(e, unit) ==
  IF ~Running(e) THEN e ELSE
  LET sets(e1, e2) ==
        IF ~Running(e2) THEN e2 ELSE
        [e2 EXCEPT
           !.inputsOfGatedBy =
              TrackInputsOfGatedBy(@, TrackGatedTriples(e1, unit), e1.gates),
           !.derivativeTerm =
              TrackDerivativeTerms(@, TrackDerivativePairs(e1, unit), e1.gates),
           !.inputSet = Put(@, unit, TrackInputSet(e1.inputsOf[unit], unit)),
           !.projectionSet = Put(@, unit, TrackProjectionSet(e1.projectedBy[unit], unit)),
           !.gateSet = Put(@, unit, TrackGateSet(e1.gatedBy[unit], unit))]
      traces(e1) == sets(e1, TrackExtendedTraces(e1, TrackExtendedTriples(e1, unit)))
  IN traces([e EXCEPT
               !.inputsOf = Put(@, unit, TrackInputsOf(e.connections, unit)),
               !.projectedBy = Put(@, unit, TrackProjectedBy(e.connections, unit)),
               !.gatersOf = Put(@, unit, TrackGatersOf(e.gates, unit)),
               !.gatedBy = Put(@, unit, TrackGatedBy(e.gates, unit))])

\* variant with a slip: a self-connection takes the supplied weight
Lysergic_addConnection_SelfWeight(e, from, to, weight) ==
  IF someConnection(e.connections, from, to) THEN e
  ELSE LET j == to
           i == from
           e1 == [e EXCEPT !.connections = Append(@, Connection(from, to))]
           e2 == Set2(e1, "gain", j, i, 1)
           e3 == Set2(e2, "weight", j, i, IF weight = Null THEN Random ELSE weight)
           e4 == Set2(e3, "elegibilityTrace", j, i, 0)
           e5 == SetRow2(e4, "extendedElegibilityTrace", j, i)
       IN Lysergic_track(Lysergic_track(e5, to), from)

\* Lysergic.addConnection(from, to, weight = null)
Lysergic_addConnection(e, from, to, weight) ==
  IF someConnection(e.connections, from, to) THEN e
  ELSE LET j == to
           i == from
           isSelfConnection == (from = to)
           e1 == [e EXCEPT !.connections = Append(@, Connection(from, to))]
           e2 == Set2(e1, "gain", j, i, 1)
           e3 == Set2(e2, "weight", j, i,
                      IF isSelfConnection THEN 1
                      ELSE IF weight = Null THEN Random ELSE weight)
           e4 == Set2(e3, "elegibilityTrace", j, i, 0)
           e5 == SetRow2(e4, "extendedElegibilityTrace", j, i)
       IN Lysergic_track(Lysergic_track(e5, to), from)

\* variant with a slip: a gated pair is gated again
Lysergic_addGate_NoCheck(e, from, to, gater) ==
  LET isBias == (from = e.biasUnit)
  IN IF isBias THEN e
     ELSE Lysergic_track(
            Lysergic_track(
              Lysergic_track([e EXCEPT !.gates = Append(@, Gate(from, to, gater))], to),
              from),
            gater)

\* Lysergic.addGate(from, to, gater)
Lysergic_addGate(e, from, to, gater) ==
  LET alreadyGated == someGate(e.gates, from, to)
      isBias == (from = e.biasUnit)
  IN IF alreadyGated \/ isBias THEN e
     ELSE Lysergic_track(
            Lysergic_track(
              Lysergic_track([e EXCEPT !.gates = Append(@, Gate(from, to, gater))], to),
              from),
            gater)

\* Lysergic.addUnit(activationFunction, biased); the new unit's id is e.size
Lysergic_addUnit(e, activationFunction, biased) ==
  LET unit == e.size
      e1 == Set1(e, "state", unit, Random)
      e2 == SetRow(SetRow(SetRow(SetRow(e1, "weight", unit), "gain", unit),
                          "elegibilityTrace", unit),
                   "extendedElegibilityTrace", unit)
      e3 == Set1(Set1(e2, "activation", unit, 0), "derivative", unit, 0)
      e4 == Set2(Set2(Set2(e3, "weight", unit, unit, 0), "gain", unit, unit, 1),
                 "elegibilityTrace", unit, unit, 0)
      e5 == SetRow2(e4, "extendedElegibilityTrace", unit, unit)
      e6 == Set1(Set1(Set1(e5, "errorResponsibility", unit, 0),
                      "projectedErrorResponsibility", unit, 0),
                 "gatedErrorResponsibility", unit, 0)
      bias(listed) ==
        IF Running(listed) /\ biased /\ listed.biasUnit # Null
        THEN Lysergic_addConnection(listed, listed.biasUnit, unit, Null)
        ELSE listed
      lists(cells) ==
        bias(IF ~Running(cells) THEN cells ELSE
             [cells EXCEPT
                !.activationFunction = Put(@, unit, activationFunction),
                !.inputsOf = Put(@, unit, << >>),
                !.projectedBy = Put(@, unit, << >>),
                !.gatersOf = Put(@, unit, << >>),
                !.gatedBy = Put(@, unit, << >>),
                !.inputsOfGatedBy = Put(@, unit, << >>),
                !.derivativeTerm = Put(@, unit, << >>),
                !.inputSet = Put(@, unit, << >>),
                !.projectionSet = Put(@, unit, << >>),
                !.gateSet = Put(@, unit, << >>),
                !.size = @ + 1])
  IN lists(e6)

\* new Lysergic({bias}), in a build that is strict or not
Lysergic_constructor(bias, strict) ==
  LET e0 == [LysergicFields EXCEPT !.strict = strict]
  IN IF bias
     THEN Set1([Lysergic_addUnit(e0, LOGISTIC_SIGMOID, TRUE) EXCEPT
                  !.biasUnit = e0.size],
               "activation", e0.size, 1)
     ELSE e0

\* Lysergic.addLayer(size, activationFunction, biased): status is IDLE in
\* every state, so the REVERSE_INIT guard never throws.  A unit that cannot
\* be added ends the call before the layer is pushed.
RECURSIVE Lysergic_addLayerUnits(_, _, _, _, _)
Lysergic_addLayerUnits(e, layer, size, activationFunction, biased) ==
  IF ~Running(e) THEN e
  ELSE IF Len(layer) = size THEN [e EXCEPT !.layers = Append(@, layer)]
  ELSE Lysergic_addLayerUnits(Lysergic_addUnit(e, activationFunction, biased),
                              Append(layer, e.size), size, activationFunction, biased)

Lysergic_addLayer(e, size, activationFunction, biased) ==
  Lysergic_addLayerUnits(e, << >>, size, activationFunction, biased)

\* ------------------------------------------------- AST nodes (ast/operations)
\* A Variable node is written as its key, e.g. <<"weight", j, i>>.
number(floatingNumber) == <<"number", floatingNumber>>
binaryOp(lhs, op, rhs) == <<"binary", op, lhs, rhs>>
unaryOp(op, rhs) == <<"unary", op, rhs>>
assign(target, rhs) == binaryOp(target, "=", rhs)
assignMul(target, rhs) == binaryOp(target, "*=", rhs)
assignSum(target, rhs) == binaryOp(target, "+=", rhs)
sum(lhs, rhs) == binaryOp(lhs, "+", rhs)
sub(lhs, rhs) == binaryOp(lhs, "-", rhs)
mul(lhs, rhs) == binaryOp(lhs, "*", rhs)
div(lhs, rhs) == binaryOp(lhs, "/", rhs)
exp(rhs) == unaryOp("exp", rhs)
neg(rhs) == unaryOp("-", rhs)
\* no node (null): addNode ignores it
NoNode == << >>

buildActivationFunction(state, type) ==
  IF type = LOGISTIC_SIGMOID
  THEN div(number(1), sum(number(1), exp(neg(state))))
  ELSE NoNode

buildDerivativeFunction(state, activation, type) ==
  IF type = LOGISTIC_SIGMOID
  THEN mul(activation, sub(number(1), activation))
  ELSE NoNode

\* document(): no children; func(name): a function node with an empty body
document == << >>
func(name) == [name |-> name, body |-> << >>]

\* ------------------------------------------------------ Lysergic, building
\* What lock() does before it builds the memory is written as the sequence
\* of its effects, in program order: a block node added to a function body,
\* a statement added to the newest block of a function, an alloc, a push on
\* inputs / outputs / targets, and the TypeError of reading `.length` of
\* undefined.  Run applies them to the engine one by one.
Block(fn, name) == << <<"block", fn, name>> >>
Statement(fn, node) == << <<"statement", fn, node>> >>
Alloc(key, tag) == << <<"alloc", key, tag>> >>
Push(list, key) == << <<"push", list, key>> >>
Throw == << <<"throw">> >>

\* Lysergic.buildActivation(j, layerJ)
buildActivation(e, j, layerJ) ==
  LET stateJ == <<"state", j>>
      gainJJ == <<"gain", j, j>>
      weightJJ == <<"weight", j, j>>
      activationJ == <<"activation", j>>
      isSelfConnected == someConnection(e.connections, j, j)
      isSelfConnectionGated == someGate(e.gates, j, j)
      input(h) ==
        LET i == e.inputSet[j][h]
            gainJI == <<"gain", j, i>>
            weightJI == <<"weight", j, i>>
            activationI == <<"activation", i>>
            isGated == someGate(e.gates, i, j)
        IN IF isGated
           THEN Alloc(stateJ, NoTag) \o Alloc(gainJI, NoTag) \o Alloc(weightJI, NoTag)
                \o Alloc(activationI, NoTag)
                \o Statement("activate",
                             assignSum(stateJ, mul(mul(gainJI, weightJI), activationI)))
           ELSE Alloc(stateJ, NoTag) \o Alloc(weightJI, NoTag)
                \o Alloc(activationI, NoTag)
                \o Statement("activate", assignSum(stateJ, mul(weightJI, activationI)))
  IN Block("activate", <<"Activation", layerJ, j>>)
     \o Alloc(stateJ, NoTag)
     \o (IF isSelfConnected /\ isSelfConnectionGated
         THEN Alloc(gainJJ, NoTag) \o Alloc(weightJJ, NoTag)
              \o Statement("activate", assignMul(stateJ, mul(gainJJ, weightJJ)))
         ELSE IF isSelfConnected
         THEN Alloc(weightJJ, NoTag)
              \o Statement("activate", assignMul(stateJ, weightJJ))
         ELSE Statement("activate", assign(stateJ, number(0))))
     \o ConcatAll([h \in 1..Len(e.inputSet[j]) |-> input(h)])
     \o Alloc(activationJ, "output")
     \o Statement("activate",
                  assign(activationJ,
                         buildActivationFunction(stateJ, e.activationFunction[j])))

\* Lysergic.buildActivationDerivative(j, layerJ)
buildActivationDerivative(e, j, layerJ) ==
  LET stateJ == <<"state", j>>
      activationJ == <<"activation", j>>
      derivativeJ == <<"derivative", j>>
  IN Block("activate", <<"Activation derivative", layerJ, j>>)
     \o Alloc(stateJ, NoTag)
     \o Alloc(activationJ, "output")
     \o Alloc(derivativeJ, NoTag)
     \o Statement("activate",
                  assign(derivativeJ,
                         buildDerivativeFunction(stateJ, activationJ,
                                                 e.activationFunction[j])))

\* the big parenthesis term of k for gater j (eq. 18 and eq. 22), as
\* buildActivationTraces and buildPropagation both spell it out: the effects
\* and whether the term is worth keeping
bigParenthesisTerm(e, fn, k, j) ==
  LET bigParenthesisTermResult == <<"bigParenthesisTermResult">>
      isSelfConnectedK == someConnection(e.connections, k, k)
      startsFromState == isSelfConnectedK /\ ~Falsy(Get(e.derivativeTerm[k], j))
      stateK == <<"state", k>>
      known == j \in DOMAIN e.inputsOfGatedBy[k]
      units == GetOrEmpty(e.inputsOfGatedBy[k], j)
      \* the first of the units other than k, 0 when there is none
      first == IF \E l \in 1..Len(units) : units[l] # k
               THEN CHOOSE l \in 1..Len(units) :
                      units[l] # k /\ \A m \in 1..(l - 1) : units[m] = k
               ELSE 0
      term(l) ==
        LET a == units[l]
            weightKA == <<"weight", k, a>>
            activationA == <<"activation", a>>
        IN IF a = k THEN << >>
           ELSE (IF l = first /\ ~startsFromState
                 THEN Statement(fn, assign(bigParenthesisTermResult, number(0)))
                 ELSE << >>)
                \o Alloc(weightKA, NoTag) \o Alloc(activationA, NoTag)
                \o Statement(fn, assignSum(bigParenthesisTermResult,
                                           mul(weightKA, activationA)))
  IN [effects |->
        Alloc(bigParenthesisTermResult, NoTag)
        \o (IF startsFromState
            THEN Alloc(stateK, NoTag)
                 \o Statement(fn, assign(bigParenthesisTermResult, stateK))
            ELSE << >>)
        \o (IF known THEN ConcatAll([l \in 1..Len(units) |-> term(l)]) ELSE Throw),
      keepBigParenthesisTerm |-> startsFromState \/ first # 0]

\* Lysergic.buildActivationTraces(j, layerJ)
buildActivationTraces(e, j, layerJ) ==
  LET activationJ == <<"activation", j>>
      derivativeJ == <<"derivative", j>>
      gainJJ == <<"gain", j, j>>
      weightJJ == <<"weight", j, j>>
      isSelfConnected == someConnection(e.connections, j, j)
      isSelfConnectionGated == someGate(e.gates, j, j)
      extended(i, g) ==
        LET k == e.gatedBy[j][g]
            elegibilityTraceJI == <<"elegibilityTrace", j, i>>
            isSelfConnectedK == someConnection(e.connections, k, k)
            isSelfConnectionGatedK == someGate(e.gates, k, k)
            big == bigParenthesisTerm(e, "activate", k, j)
            bigParenthesisTermResult == <<"bigParenthesisTermResult">>
            extendedElegibilityTraceJIK == <<"extendedElegibilityTrace", j, i, k>>
            gainKK == <<"gain", k, k>>
            weightKK == <<"weight", k, k>>
            influence == mul(mul(derivativeJ, elegibilityTraceJI),
                             bigParenthesisTermResult)
        IN big.effects
           \o Alloc(extendedElegibilityTraceJIK, NoTag)
           \o (IF isSelfConnectedK /\ isSelfConnectionGatedK
               THEN Alloc(gainKK, NoTag) \o Alloc(weightKK, NoTag)
                    \o Statement("activate",
                         IF big.keepBigParenthesisTerm
                         THEN assign(extendedElegibilityTraceJIK,
                                     sum(mul(mul(gainKK, weightKK),
                                             extendedElegibilityTraceJIK),
                                         influence))
                         ELSE assign(extendedElegibilityTraceJIK,
                                     mul(mul(gainKK, weightKK),
                                         extendedElegibilityTraceJIK)))
               ELSE IF isSelfConnectedK
               THEN Alloc(weightKK, NoTag)
                    \o Statement("activate",
                         IF big.keepBigParenthesisTerm
                         THEN assign(extendedElegibilityTraceJIK,
                                     sum(mul(weightKK, extendedElegibilityTraceJIK),
                                         influence))
                         ELSE assign(extendedElegibilityTraceJIK,
                                     mul(weightKK, extendedElegibilityTraceJIK)))
               ELSE IF big.keepBigParenthesisTerm
               THEN Statement("activate",
                              assign(extendedElegibilityTraceJIK, influence))
               ELSE << >>)
      input(h) ==
        LET i == e.inputSet[j][h]
            elegibilityTraceJI == <<"elegibilityTrace", j, i>>
            activationI == <<"activation", i>>
            gainJI == <<"gain", j, i>>
        IN Alloc(elegibilityTraceJI, NoTag) \o Alloc(activationI, NoTag)
           \o Alloc(gainJI, NoTag)
           \o (IF isSelfConnected /\ isSelfConnectionGated
               THEN Alloc(gainJJ, NoTag) \o Alloc(weightJJ, NoTag)
                    \o Statement("activate",
                         assign(elegibilityTraceJI,
                                sum(mul(mul(gainJJ, weightJJ), elegibilityTraceJI),
                                    mul(gainJI, activationI))))
               ELSE IF isSelfConnected
               THEN Alloc(weightJJ, NoTag)
                    \o Statement("activate",
                         assign(elegibilityTraceJI,
                                sum(mul(weightJJ, elegibilityTraceJI),
                                    mul(gainJI, activationI))))
               ELSE Statement("activate",
                              assign(elegibilityTraceJI, mul(gainJI, activationI))))
           \o ConcatAll([g \in 1..Len(e.gatedBy[j]) |-> extended(i, g)])
      gains(h) ==
        LET to == e.gatedBy[j][h]
            froms == GetOrEmpty(e.inputsOfGatedBy[to], j)
            gain(g) ==
              LET gainToFrom == <<"gain", to, froms[g]>>
              IN Alloc(gainToFrom, NoTag)
                 \o Statement("activate", assign(gainToFrom, activationJ))
        IN IF j \in DOMAIN e.inputsOfGatedBy[to]
           THEN ConcatAll([g \in 1..Len(froms) |-> gain(g)])
           ELSE Throw
  IN Block("activate", <<"Traces of", layerJ, j>>)
     \o Alloc(activationJ, "output")
     \o Alloc(derivativeJ, NoTag)
     \o ConcatAll([h \in 1..Len(e.inputSet[j]) |-> input(h)])
     \o ConcatAll([h \in 1..Len(e.gatedBy[j]) |-> gains(h)])

\* the value of targetJ when buildPropagation is called without it
NoTarget == << >>

\* Lysergic.buildPropagation(j, layerJ, targetJ)
buildPropagation(e, j, layerJ, targetJ) ==
  LET errorResponsibilityJ == <<"errorResponsibility", j>>
      projectedErrorResponsibilityJ == <<"projectedErrorResponsibility", j>>
      gatedErrorResponsibilityJ == <<"gatedErrorResponsibility", j>>
      activationJ == <<"activation", j>>
      derivativeJ == <<"derivative", j>>
      learningRate == <<"learningRate">>
      deltaW == <<"Δw">>
      hasProjectedError == Len(e.projectionSet[j]) > 0 \/ targetJ # NoTarget
      hasGatedError == Len(e.gateSet[j]) > 0
      projected(h) ==
        LET k == e.projectionSet[j][h]
            errorResponsibilityK == <<"errorResponsibility", k>>
            weightKJ == <<"weight", k, j>>
            gainKJ == <<"gain", k, j>>
            isGated == someGate(e.gates, j, k)
        IN Alloc(errorResponsibilityK, NoTag)
           \o (IF isGated
               THEN Alloc(weightKJ, NoTag) \o Alloc(gainKJ, NoTag)
                    \o Statement("propagate",
                         assignSum(projectedErrorResponsibilityJ,
                                   mul(mul(gainKJ, weightKJ), errorResponsibilityK)))
               ELSE Alloc(weightKJ, NoTag)
                    \o Statement("propagate",
                         assignSum(projectedErrorResponsibilityJ,
                                   mul(weightKJ, errorResponsibilityK))))
      gated(h) ==
        LET k == e.gateSet[j][h]
            errorResponsibilityK == <<"errorResponsibility", k>>
            big == bigParenthesisTerm(e, "propagate", k, j)
        IN big.effects
           \o (IF big.keepBigParenthesisTerm
               THEN Alloc(errorResponsibilityK, NoTag)
                    \o Statement("propagate",
                         assignSum(gatedErrorResponsibilityJ,
                                   mul(errorResponsibilityK,
                                       <<"bigParenthesisTermResult">>)))
               ELSE << >>)
      traced(i, g) ==
        LET k == e.gateSet[j][g]
            errorResponsibilityK == <<"errorResponsibility", k>>
            extendedElegibilityTraceJIK == <<"extendedElegibilityTrace", j, i, k>>
        IN Alloc(errorResponsibilityK, NoTag)
           \o Alloc(extendedElegibilityTraceJIK, NoTag)
           \o Statement("propagate",
                assignSum(deltaW, mul(errorResponsibilityK,
                                      extendedElegibilityTraceJIK)))
      adjust(h) ==
        LET i == e.inputSet[j][h]
            weightJI == <<"weight", j, i>>
            elegibilityTraceJI == <<"elegibilityTrace", j, i>>
        IN IF hasProjectedError /\ hasGatedError
           THEN Alloc(deltaW, NoTag) \o Alloc(projectedErrorResponsibilityJ, NoTag)
                \o Alloc(elegibilityTraceJI, NoTag)
                \o Statement("propagate",
                     assign(deltaW, mul(projectedErrorResponsibilityJ,
                                        elegibilityTraceJI)))
                \o ConcatAll([g \in 1..Len(e.gateSet[j]) |-> traced(i, g)])
                \o Alloc(learningRate, NoTag)
                \o Statement("propagate", assignMul(deltaW, learningRate))
                \o Alloc(weightJI, NoTag)
                \o Statement("propagate", assignSum(weightJI, deltaW))
           ELSE IF hasProjectedError
           THEN Alloc(weightJI, NoTag) \o Alloc(projectedErrorResponsibilityJ, NoTag)
                \o Alloc(elegibilityTraceJI, NoTag) \o Alloc(learningRate, NoTag)
                \o Statement("propagate",
                     assignSum(weightJI,
                               mul(mul(projectedErrorResponsibilityJ,
                                       elegibilityTraceJI),
                                   learningRate)))
           ELSE IF hasGatedError
           THEN Alloc(deltaW, NoTag)
                \o Statement("propagate", assign(deltaW, number(0)))
                \o ConcatAll([g \in 1..Len(e.gateSet[j]) |-> traced(i, g)])
                \o Alloc(learningRate, NoTag)
                \o Statement("propagate", assignMul(deltaW, learningRate))
                \o Alloc(weightJI, NoTag)
                \o Statement("propagate", assignSum(weightJI, deltaW))
           ELSE << >>
  IN Block("propagate", <<"Propagation", layerJ, j>>)
     \o (IF targetJ # NoTarget
         THEN Alloc(errorResponsibilityJ, NoTag)
              \o Alloc(projectedErrorResponsibilityJ, NoTag)
              \o Alloc(activationJ, NoTag)
              \o Statement("propagate",
                           assign(errorResponsibilityJ, sub(targetJ, activationJ)))
              \o Statement("propagate",
                           assign(projectedErrorResponsibilityJ, errorResponsibilityJ))
         ELSE Alloc(projectedErrorResponsibilityJ, NoTag)
              \o (IF hasProjectedError
                  THEN Statement("propagate",
                                 assign(projectedErrorResponsibilityJ, number(0)))
                  ELSE << >>)
              \o ConcatAll([h \in 1..Len(e.projectionSet[j]) |-> projected(h)])
              \o Alloc(derivativeJ, NoTag)
              \o (IF hasProjectedError
                  THEN Statement("propagate",
                                 assignMul(projectedErrorResponsibilityJ, derivativeJ))
                  ELSE << >>)
              \o Alloc(gatedErrorResponsibilityJ, NoTag)
              \o (IF hasGatedError
                  THEN Statement("propagate",
                                 assignMul(gatedErrorResponsibilityJ, number(0)))
                  ELSE << >>)
              \o ConcatAll([h \in 1..Len(e.gateSet[j]) |-> gated(h)])
              \o (IF hasGatedError
                  THEN Statement("propagate",
                                 assignMul(gatedErrorResponsibilityJ, derivativeJ))
                  ELSE << >>)
              \o Alloc(errorResponsibilityJ, NoTag)
              \o (IF hasProjectedError /\ hasGatedError
                  THEN Statement("propagate",
                         assign(errorResponsibilityJ,
                                sum(projectedErrorResponsibilityJ,
                                    gatedErrorResponsibilityJ)))
                  ELSE IF hasProjectedError
                  THEN Statement("propagate",
                         assign(errorResponsibilityJ, projectedErrorResponsibilityJ))
                  ELSE IF hasGatedError
                  THEN Statement("propagate",
                         assign(errorResponsibilityJ, gatedErrorResponsibilityJ))
                  ELSE << >>))
     \o ConcatAll([h \in 1..Len(e.inputSet[j]) |-> adjust(h)])

\* the effects of lock() between its cleanup and `this.targets.reverse()`.
\* Layers are numbered from 0 in block names, as in the source; no unit of
\* the networks built here is a SOFTMAX unit, so softmaxUnits is not called.
LockEffects(e) ==
  LET layers == Len(e.layers)
      outputLayer == layers - 1
      unit(layer, x) ==
        LET j == e.layers[layer + 1][x]
            activationJ == <<"activation", j>>
        IN IF layer = 0
           THEN Alloc(activationJ, "input") \o Push("inputs", activationJ)
           ELSE IF layer = outputLayer
           THEN buildActivation(e, j, layer) \o Push("outputs", activationJ)
           ELSE buildActivation(e, j, layer)
      activate(layer) ==
        LET units == e.layers[layer + 1]
        IN ConcatAll([x \in 1..Len(units) |-> unit(layer, x)])
           \o (IF layer = 0 THEN << >>
               ELSE ConcatAll([x \in 1..Len(units) |->
                                 buildActivationDerivative(e, units[x], layer)])
                    \o ConcatAll([x \in 1..Len(units) |->
                                    buildActivationTraces(e, units[x], layer)]))
      target(x) ==
        LET targetJ == <<"target", x - 1>>
        IN Alloc(targetJ, "target") \o Push("targets", targetJ)
           \o buildPropagation(e, e.layers[layers][x], outputLayer, targetJ)
      hidden(layer) ==
        LET units == e.layers[layer + 1]
        IN ConcatAll([y \in 1..Len(units) |->
                        buildPropagation(e, units[Len(units) + 1 - y], layer, NoTarget)])
  IN Alloc(<<"learningRate">>, NoTag)
     \o Alloc(<<"seed">>, NoTag)
     \o << <<"function", "activate">>, <<"function", "propagate">> >>
     \o (IF e.biasUnit # Null THEN Alloc(<<"activation", e.biasUnit>>, NoTag) ELSE << >>)
     \o ConcatAll([y \in 1..layers |-> activate(y - 1)])
     \o (IF layers = 0 THEN Throw
         ELSE ConcatAll([y \in 1..Len(e.layers[layers]) |->
                           target(Len(e.layers[layers]) + 1 - y)])
              \o ConcatAll([y \in 1..(layers - 2) |-> hidden(layers - 1 - y)]))

\* the `length` of a JS array: one more than its highest index
ArrayLength(a) ==
  IF DOMAIN a = {} THEN 0
  ELSE 1 + CHOOSE x \in DOMAIN a : \A y \in DOMAIN a : y <= x

\* a cell of the zero-filled buffer; the buffer has room for 8192 cells
MemoryGet(memory, id) == IF id \in DOMAIN memory THEN memory[id] ELSE 0

\* the `get` trap of a Proxy made by proxyDimensions, for an index
ProxyGet(e, key) ==
  LET x == VariableIndexOf(e.variables, key)
  IN IF x # 0 THEN MemoryGet(e.memory, e.variables[x].id) ELSE 0

\* this.<name>[..] for the key name[..] of one, two or three indices; the
\* rows read by lock() exist for every unit and every connection
ReadCell(e, key) ==
  LET name == key[1]
      slot == SubSeq(key, 1, Len(key) - 1)
      row == IF Len(key) = 2 THEN e[name]
             ELSE IF Len(key) = 3 THEN e[name][key[2]]
             ELSE e[name][key[2]][key[3]]
  IN IF slot \in DOMAIN e.proxies THEN ProxyGet(e, key)
     ELSE Get(row, key[Len(key)])

\* the second argument lock() and the build functions pass to alloc for a key
AllocValue(e, key) ==
  IF key[1] = "learningRate" THEN DefaultLearningRate
  ELSE IF key[1] = "seed" THEN Random
  ELSE IF key[1] \in {"target", "bigParenthesisTermResult", "Δw"} THEN Null
  ELSE ReadCell(e, key)

\* Lysergic.alloc(key, value, tag)
Lysergic_alloc(e, key, value, tag) ==
  IF VariableIndexOf(e.variables, key) # 0 THEN e
  ELSE [e EXCEPT
          !.variables = Append(@, [id |-> e.allocCount, key |-> key,
                                   initialValue |-> value, tag |-> tag]),
          !.allocCount = @ + 1]

\* Node.addNode on the body of function fn, and on the newest block of fn
AddBlock(AST, fn, name) ==
  [x \in DOMAIN AST |->
     IF AST[x].name = fn
     THEN [AST[x] EXCEPT !.body = Append(@, [name |-> name, children |-> << >>])]
     ELSE AST[x]]

AddStatement(AST, fn, node) ==
  IF node = NoNode THEN AST
  ELSE [x \in DOMAIN AST |->
          IF AST[x].name = fn
          THEN [AST[x] EXCEPT !.body[Len(AST[x].body)].children = Append(@, node)]
          ELSE AST[x]]

ApplyEffect(e, effect) ==
  CASE effect[1] = "alloc" ->
         Lysergic_alloc(e, effect[2], AllocValue(e, effect[2]), effect[3])
    [] effect[1] = "function" -> [e EXCEPT !.AST = Append(@, func(effect[2]))]
    [] effect[1] = "block" -> [e EXCEPT !.AST = AddBlock(@, effect[2], effect[3])]
    [] effect[1] = "statement" ->
         [e EXCEPT !.AST = AddStatement(@, effect[2], effect[3])]
    [] effect[1] = "push" -> [e EXCEPT ![effect[2]] = Append(@, effect[3])]
    [] effect[1] = "throw" -> [e EXCEPT !.exception = TypeError]

\* the effects lo..hi of the sequence, in order, up to the first that throws
RECURSIVE RunRange(_, _, _, _)
RunRange(e, effects, lo, hi) ==
  IF lo > hi \/ ~Running(e) THEN e
  ELSE IF lo = hi THEN ApplyEffect(e, effects[lo])
  ELSE LET mid == (lo + hi) \div 2
       IN RunRange(RunRange(e, effects, lo, mid), effects, mid + 1, hi)

Run(e, effects) == RunRange(e, effects, 1, Len(effects))

Reverse(s) == [x \in 1..Len(s) |-> s[Len(s) + 1 - x]]

\* new Float64Array(heap), filled with the numeric initial values
NewMemory(variables) ==
  [id \in 0..(Len(variables) - 1) |->
     IF IsNumber(variables[id + 1].initialValue)
     THEN variables[id + 1].initialValue
     ELSE 0]

OneDimensional ==
  {"state", "activation", "derivative", "errorResponsibility",
   "projectedErrorResponsibility", "gatedErrorResponsibility"}
TwoDimensional == {"weight", "gain", "elegibilityTrace"}

\* the length a Proxy made now captures for the slot at `slot` holding `value`
SlotLength(e, slot, value) ==
  IF slot \in DOMAIN e.proxies THEN e.proxies[slot] ELSE ArrayLength(value)

\* the ten proxyDimensions calls of lock(): every one-dimensional array, every
\* row of a two-dimensional one and every existing extendedElegibilityTrace[j][i]
\* becomes a Proxy
proxyDimensions(e) ==
  LET eet == "extendedElegibilityTrace"
      slots == {<<n>> : n \in OneDimensional}
               \cup {<<n, j>> : n \in TwoDimensional, j \in DOMAIN e.weight}
               \cup UNION {{<<eet, j, i>> : i \in DOMAIN e[eet][j]} : j \in DOMAIN e[eet]}
      value(slot) == IF Len(slot) = 1 THEN e[slot[1]]
                     ELSE IF Len(slot) = 2 THEN e[slot[1]][slot[2]]
                     ELSE e[slot[1]][slot[2]][slot[3]]
      target1 == << >>
      target2(a) == [j \in DOMAIN a |-> << >>]
      target3(a) == [j \in DOMAIN a |-> [i \in DOMAIN a[j] |-> << >>]]
  IN [e EXCEPT
        !.proxies = [slot \in slots |-> SlotLength(e, slot, value(slot))],
        !.state = target1, !.activation = target1, !.derivative = target1,
        !.errorResponsibility = target1,
        !.projectedErrorResponsibility = target1,
        !.gatedErrorResponsibility = target1,
        !.weight = target2(@), !.gain = target2(@),
        !.elegibilityTrace = target2(@),
        !.extendedElegibilityTrace = target3(@)]

\* Lysergic.lock(), with the default minHeapSize
Lysergic_lock(e) ==
  LET build(e0) == Run(e0, LockEffects(e0))
      finish(e1) ==
        IF ~Running(e1) THEN e1
        ELSE [proxyDimensions([e1 EXCEPT !.targets = Reverse(@),
                                         !.memory = NewMemory(e1.variables)])
                EXCEPT !.locked = TRUE]
  IN finish(build([e EXCEPT !.allocCount = 0, !.variables = << >>,
                            !.inputs = << >>, !.outputs = << >>,
                            !.targets = << >>, !.AST = document]))

\* Lysergic.getAST(): if (!this.locked) this.lock(); return this.AST
Lysergic_getAST(e) == IF ~e.locked THEN Lysergic_lock(e) ELSE e

\* Lysergic.getVariables(): if (!this.locked) this.lock(); return the variables
Lysergic_getVariables(e) == IF ~e.locked THEN Lysergic_lock(e) ELSE e

\* ------------------------------------------------------ a heap on its own
\* The allocator and the finalizer exist in three revisions: Heap (nodes.ts,
\* part_003), AST with the Heap of Heap.ts, and Lysergic (index.ts; part_001
\* has the same alloc).
Owners == {"Heap", "AST", "Lysergic"}

\* the default of build({minHeapSize})
DefaultMinHeapSize == 65536
MinHeapSizes == {8, DefaultMinHeapSize}

\* names and values a client passes to setVariable; Undefined is an absent value
HeapKeys == {<<"learningRate">>, <<"state", 0>>, <<"state", 1>>, <<"weight", 1, 0>>,
             <<"constructor">>}
HeapValues == {Undefined, 0, 3, 7}

\* an allocator with nothing allocated.  `first` remembers the id of the handle
\* the first allocation of each name returned, `handle` the id of the handle
\* the last call returned.
HeapUnderTest(owner) ==
  [owner |-> owner, store |-> NewHeap, buffer |-> Null, memory |-> << >>,
   first |-> << >>, handle |-> Null]

\* the id of the handle alloc / getVariable returns for a key: this.variables[key].id
HandleId(store, key) ==
  IF HeapIndexOf(store, key) # 0 THEN store.variables[HeapIndexOf(store, key)].id
  ELSE Undefined

\* alloc of the revision
Alloc_of(owner, store, key, value, tag) ==
  IF owner = "Lysergic"
  THEN IF Inherited(key) THEN store
       ELSE LET e == Lysergic_alloc([variables |-> store.variables,
                                     allocCount |-> store.allocationCount],
                                    key, value, tag)
            IN [allocationCount |-> e.allocCount, variables |-> e.variables]
  ELSE Heap_alloc(store, key, value, tag)

\* the names in the order string comparison puts them
SortedNames == <<"learningRate", "state", "weight">>
NameRank(name) == CHOOSE x \in DOMAIN SortedNames : SortedNames[x] = name

\* a.standard > b.standard, the keys with every index padded to nine digits
RECURSIVE IndexesGreater(_, _)
IndexesGreater(a, b) ==
  IF Len(a) = 0 THEN FALSE
  ELSE IF Len(b) = 0 THEN TRUE
  ELSE IF Head(a) # Head(b) THEN Head(a) > Head(b)
  ELSE IndexesGreater(Tail(a), Tail(b))

StandardGreater(a, b) ==
  IF a[1] # b[1] THEN NameRank(a[1]) > NameRank(b[1])
  ELSE IndexesGreater(Tail(a), Tail(b))

\* Heap.sortVariables: the same Variable objects, re-inserted in key order
RECURSIVE Heap_sortVariables(_)
Heap_sortVariables(variables) ==
  IF Len(variables) = 0 THEN << >>
  ELSE LET x == CHOOSE x \in DOMAIN variables :
                  \A y \in DOMAIN variables :
                    y = x \/ StandardGreater(variables[y].key, variables[x].key)
           rest == [y \in 1..(Len(variables) - 1) |->
                      IF y < x THEN variables[y] ELSE variables[y + 1]]
       IN <<variables[x]>> \o Heap_sortVariables(rest)

\* new Float64Array(buffer) filled with the numeric initial values: a write to
\* an index outside the array is dropped
FillMemory(variables, bytes) ==
  LET written == {x \in DOMAIN variables :
                    /\ IsNumber(variables[x].initialValue)
                    /\ variables[x].id < bytes \div 8}
  IN [id \in {variables[x].id : x \in written} |->
        LET x == CHOOSE x \in written : variables[x].id = id
        IN variables[x].initialValue]

Max(a, b) == IF a > b THEN a ELSE b
Min(a, b) == IF a < b THEN a ELSE b

\* Heap.build({minHeapSize, buffer}) of nodes.ts and part_003; `buffer` is the
\* byte length of the caller's buffer, Undefined when there is none
Heap_build(h, minHeapSize, buffer) ==
  LET sorted == Heap_sortVariables(h.store.variables)
      bytes == IF buffer # Undefined THEN buffer
               ELSE Max(h.store.allocationCount * 8, minHeapSize)
  IN [h EXCEPT !.store.variables = sorted, !.buffer = bytes,
               !.memory = FillMemory(sorted, bytes)]

\* Heap.build({minHeapSize, buffer}) of Heap.ts, over the cells of its AST
ASTHeap_build(h, minHeapSize, buffer) ==
  LET bytes == IF buffer # Undefined THEN buffer
               ELSE Min(h.store.allocationCount * 8, minHeapSize)
  IN [h EXCEPT !.buffer = bytes, !.memory = FillMemory(h.store.variables, bytes)]

\* memory[id] of the finalized heap
MemoryRead(h, id) ==
  IF id < h.buffer \div 8 THEN MemoryGet(h.memory, id) ELSE Undefined


\* ----------------------------------------------- AST, building on the heap
\* The builder that reads its cells from the heap of the topology.  It exists
\* in two revisions: part_000 (cells in topology.heap, whole-layer buckets)
\* and AST.ts (cells in the AST's own table, softmaxUnits).  A build is the
\* sequence of its effects in program order, as for Lysergic: getVariable
\* (which throws for a key that is not declared), setVariable, a block, a
\* statement, a push.
SOFTMAX == "SOFTMAX"
MAX_POOLING == "MAX_POOLING"
\* type & WHOLE_LAYER_ACTIVATION_KIND
WholeLayerKind(type) == type \in {SOFTMAX, MAX_POOLING}

max(lhs, rhs) == binaryOp(lhs, "max", rhs)
krnonecker(i, j) == binaryOp(i, "kronecker", j)
assignSub(target, rhs) == binaryOp(target, "-=", rhs)

GetVariable(key) == << <<"getVariable", key>> >>
SetVariable(key, value, tag) == << <<"setVariable", key, value, tag>> >>

\* AST.buildComputeState(j, layerJ)
AST_buildComputeState(t, rev, j, layerJ) ==
  LET stateJ == <<"state", j>>
      gainJJ == <<"gain", j, j>>
      weightJJ == <<"weight", j, j>>
      isSelfConnected == someConnection(t.connections, j, j)
      isSelfConnectionGated == someGate(t.gates, j, j)
      input(h) ==
        LET i == t.inputSet[j][h]
            gainJI == <<"gain", j, i>>
            weightJI == <<"weight", j, i>>
            activationI == <<"activation", i>>
        IN IF someGate(t.gates, i, j)
           THEN GetVariable(stateJ) \o GetVariable(gainJI) \o GetVariable(weightJI)
                \o GetVariable(activationI)
                \o Statement("activate",
                             assignSum(stateJ, mul(mul(gainJI, weightJI), activationI)))
           ELSE GetVariable(stateJ) \o GetVariable(weightJI) \o GetVariable(activationI)
                \o Statement("activate", assignSum(stateJ, mul(weightJI, activationI)))
  IN Block("activate", <<IF rev = "AST.ts" THEN "ActivationState" ELSE "State", layerJ, j>>)
     \o GetVariable(stateJ)
     \o (IF isSelfConnected /\ isSelfConnectionGated
         THEN GetVariable(gainJJ) \o GetVariable(weightJJ)
              \o Statement("activate", assignMul(stateJ, mul(gainJJ, weightJJ)))
         ELSE IF isSelfConnected
         THEN GetVariable(weightJJ) \o Statement("activate", assignMul(stateJ, weightJJ))
         ELSE Statement("activate", assign(stateJ, number(0))))
     \o ConcatAll([h \in 1..Len(t.inputSet[j]) |-> input(h)])

\* AST.buildActivation(j, layerJ)
AST_buildActivation(t, j, layerJ) ==
  LET stateJ == <<"state", j>>
      activationJ == <<"activation", j>>
  IN Block("activate", <<"Activation", layerJ, j>>)
     \o GetVariable(stateJ) \o GetVariable(activationJ)
     \o Statement("activate",
          IF buildActivationFunction(stateJ, t.activationFunction[j]) = NoNode THEN NoNode
          ELSE assign(activationJ,
                      buildActivationFunction(stateJ, t.activationFunction[j])))

\* AST.buildActivationDerivative(j, layerJ)
AST_buildActivationDerivative(t, j, layerJ) ==
  LET stateJ == <<"state", j>>
      activationJ == <<"activation", j>>
      derivativeJ == <<"derivative", j>>
      derivativeFunction ==
        buildDerivativeFunction(stateJ, activationJ, t.activationFunction[j])
  IN Block("activate", <<"Activation derivative", layerJ, j>>)
     \o GetVariable(stateJ) \o GetVariable(activationJ) \o GetVariable(derivativeJ)
     \o Statement("activate",
          IF derivativeFunction = NoNode THEN NoNode
          ELSE assign(derivativeJ, derivativeFunction))

\* the statements of a softmax over `units`: maximum, exponentials,
\* denominator, normalisation, derivatives.  The inner loop of the derivative
\* multiplies state j by itself in part_000 and by state i in AST.ts.
SoftmaxStatements(rev, units, layerJ) ==
  LET n == Len(units)
      activation(x) == <<"activation", units[x]>>
      derivative(x) == <<"derivative", units[x]>>
      state(x) == <<"state", units[x]>>
      maximum == <<"softmaxMaximum", layerJ>>
      denominator == <<"softmaxDenominator", layerJ>>
      others(x) == SelectSeq([y \in 1..n |-> y], LAMBDA y : y # x)
      derive(x) ==
        Statement("activate", assign(derivative(x), mul(state(x), sub(number(1), state(x)))))
        \o ConcatAll([z \in 1..Len(others(x)) |->
             LET y == others(x)[z]
             IN Statement("activate",
                  assignSub(derivative(x),
                            IF rev = "AST.ts" THEN mul(state(y), state(x))
                            ELSE mul(state(y), state(y))))])
  IN Statement("activate", assign(maximum, number(0)))
     \o Statement("activate", assign(denominator, number(0)))
     \o ConcatAll([x \in 1..n |->
          Statement("activate", assign(maximum, max(maximum, state(x))))])
     \o ConcatAll([x \in 1..n |->
          Statement("activate", assign(activation(x), exp(sub(state(x), maximum))))])
     \o ConcatAll([x \in 1..n |->
          Statement("activate", assignSum(denominator, activation(x)))])
     \o ConcatAll([x \in 1..n |->
          Statement("activate", assign(activation(x), div(activation(x), denominator)))])
     \o ConcatAll([x \in 1..n |-> derive(x)])

\* the cells a softmax looks up and declares before its first statement
SoftmaxCells(units, layerJ) ==
  ConcatAll([x \in 1..Len(units) |-> GetVariable(<<"activation", units[x]>>)])
  \o ConcatAll([x \in 1..Len(units) |-> GetVariable(<<"derivative", units[x]>>)])
  \o ConcatAll([x \in 1..Len(units) |-> GetVariable(<<"state", units[x]>>)])
  \o SetVariable(<<"softmaxMaximum", layerJ>>, 0, NoTag)
  \o SetVariable(<<"softmaxDenominator", layerJ>>, 0, NoTag)
  \o ConcatAll([x \in 1..Len(units) |->
       SetVariable(<<"softmaxNominators", layerJ, units[x]>>, 0, NoTag)])

\* AST.softmaxUnits(units, layerJ) of AST.ts
AST_softmaxUnits(units, layerJ) ==
  Block("activate", <<"Softmax", layerJ>>)
  \o SoftmaxCells(units, layerJ)
  \o SoftmaxStatements("AST.ts", units, layerJ)

\* variant with a slip: the first statement also folds into the old maximum
MaxPoolingUnit_NoFirst(t, unit) ==
  LET inputs == t.inputsOf[unit]
      maximum == <<"activation", unit>>
      activation(x) == <<"activation", inputs[x]>>
      weight(x) == <<"weight", unit, inputs[x]>>
      derivative(x) == <<"derivative", inputs[x]>>
  IN GetVariable(maximum)
     \o ConcatAll([x \in 1..Len(inputs) |-> GetVariable(activation(x))])
     \o ConcatAll([x \in 1..Len(inputs) |->
          Statement("activate", assign(maximum, max(maximum, activation(x))))])
     \o ConcatAll([x \in 1..Len(inputs) |->
          GetVariable(activation(x)) \o GetVariable(weight(x))
          \o GetVariable(derivative(x))
          \o Statement("activate", assign(weight(x), krnonecker(activation(x), maximum)))
          \o Statement("activate",
                       assign(derivative(x), krnonecker(activation(x), maximum)))])

\* the MAX_POOLING case of buildWholeLayerActivation for one unit
MaxPoolingUnit(t, unit) ==
  LET inputs == t.inputsOf[unit]
      maximum == <<"activation", unit>>
      activation(x) == <<"activation", inputs[x]>>
      weight(x) == <<"weight", unit, inputs[x]>>
      derivative(x) == <<"derivative", inputs[x]>>
  IN GetVariable(maximum)
     \o ConcatAll([x \in 1..Len(inputs) |-> GetVariable(activation(x))])
     \o ConcatAll([x \in 1..Len(inputs) |->
          Statement("activate",
                    assign(maximum, IF x = 1 THEN activation(x)
                                    ELSE max(maximum, activation(x))))])
     \o ConcatAll([x \in 1..Len(inputs) |->
          GetVariable(activation(x)) \o GetVariable(weight(x))
          \o GetVariable(derivative(x))
          \o Statement("activate", assign(weight(x), krnonecker(activation(x), maximum)))
          \o Statement("activate",
                       assign(derivative(x), krnonecker(activation(x), maximum)))])

\* AST.buildWholeLayerActivation(bucket) of part_000
AST_buildWholeLayerActivation(t, bucket) ==
  Block("activate", <<"Whole Layer Activation", bucket.layer, bucket.type>>)
  \o (IF bucket.type = MAX_POOLING
      THEN ConcatAll([x \in 1..Len(bucket.units) |-> MaxPoolingUnit(t, bucket.units[x])])
      ELSE IF bucket.type = SOFTMAX
      THEN SoftmaxCells(bucket.units, bucket.layer)
           \o SoftmaxStatements("part_000", bucket.units, bucket.layer)
      ELSE << >>)

\* the big parenthesis term of k for gater j, as part_000 spells it out in
\* buildActivationTraces (fn = "activate": the term starts from the state of k
\* when derivativeTerm[k][j] is declared and its initial value is truthy) and
\* in buildPropagation (fn = "propagate": when it is declared)
AST_bigParenthesisTerm(t, fn, k, j) ==
  LET bigParenthesisTermResult == <<"bigParenthesisTermResult">>
      derivativeTerm == <<"derivativeTerm", k, j>>
      isSelfConnectedK == someConnection(t.connections, k, k)
      startsFromState ==
        /\ isSelfConnectedK
        /\ Heap_hasVariable(t.heap, derivativeTerm)
        /\ fn = "activate" => ~Falsy(Heap_getVariable(t.heap, derivativeTerm))
      stateK == <<"state", k>>
      known == j \in DOMAIN t.inputsOfGatedBy[k]
      units == GetOrEmpty(t.inputsOfGatedBy[k], j)
      first == IF \E l \in 1..Len(units) : units[l] # k
               THEN CHOOSE l \in 1..Len(units) :
                      units[l] # k /\ \A m \in 1..(l - 1) : units[m] = k
               ELSE 0
      term(l) ==
        LET a == units[l]
            weightKA == <<"weight", k, a>>
            activationA == <<"activation", a>>
        IN IF a = k THEN << >>
           ELSE (IF l = first /\ ~startsFromState
                 THEN Statement(fn, assign(bigParenthesisTermResult, number(0)))
                 ELSE << >>)
                \o GetVariable(weightKA) \o GetVariable(activationA)
                \o Statement(fn, assignSum(bigParenthesisTermResult,
                                           mul(weightKA, activationA)))
  IN [effects |->
        SetVariable(bigParenthesisTermResult, IF fn = "activate" THEN 0 ELSE Null, NoTag)
        \o (IF startsFromState
            THEN (IF fn = "activate" THEN GetVariable(derivativeTerm) ELSE << >>)
                 \o GetVariable(stateK)
                 \o Statement(fn, assign(bigParenthesisTermResult, stateK))
            ELSE << >>)
        \o (IF known THEN ConcatAll([l \in 1..Len(units) |-> term(l)]) ELSE Throw),
      keepBigParenthesisTerm |-> startsFromState \/ first # 0]

\* AST.buildActivationTraces(j, layerJ)
AST_buildActivationTraces(t, j, layerJ) ==
  LET activationJ == <<"activation", j>>
      derivativeJ == <<"derivative", j>>
      gainJJ == <<"gain", j, j>>
      weightJJ == <<"weight", j, j>>
      isSelfConnected == someConnection(t.connections, j, j)
      isSelfConnectionGated == someGate(t.gates, j, j)
      extended(i, g) ==
        LET k == t.gatedBy[j][g]
            elegibilityTraceJI == <<"elegibilityTrace", j, i>>
            isSelfConnectedK == someConnection(t.connections, k, k)
            isSelfConnectionGatedK == someGate(t.gates, k, k)
            big == AST_bigParenthesisTerm(t, "activate", k, j)
            bigParenthesisTermResult == <<"bigParenthesisTermResult">>
            extendedElegibilityTraceJIK == <<"extendedElegibilityTrace", j, i, k>>
            gainKK == <<"gain", k, k>>
            weightKK == <<"weight", k, k>>
            influence == mul(mul(derivativeJ, elegibilityTraceJI),
                             bigParenthesisTermResult)
        IN big.effects
           \o GetVariable(extendedElegibilityTraceJIK)
           \o (IF isSelfConnectedK /\ isSelfConnectionGatedK
               THEN GetVariable(gainKK) \o GetVariable(weightKK)
                    \o Statement("activate",
                         IF big.keepBigParenthesisTerm
                         THEN assign(extendedElegibilityTraceJIK,
                                     sum(mul(mul(gainKK, weightKK),
                                             extendedElegibilityTraceJIK),
                                         influence))
                         ELSE assign(extendedElegibilityTraceJIK,
                                     mul(mul(gainKK, weightKK),
                                         extendedElegibilityTraceJIK)))
               ELSE IF isSelfConnectedK
               THEN GetVariable(weightKK)
                    \o Statement("activate",
                         IF big.keepBigParenthesisTerm
                         THEN assign(extendedElegibilityTraceJIK,
                                     sum(mul(weightKK, extendedElegibilityTraceJIK),
                                         influence))
                         ELSE assign(extendedElegibilityTraceJIK,
                                     mul(weightKK, extendedElegibilityTraceJIK)))
               ELSE IF big.keepBigParenthesisTerm
               THEN Statement("activate",
                              assign(extendedElegibilityTraceJIK, influence))
               ELSE << >>)
      input(h) ==
        LET i == t.inputSet[j][h]
            elegibilityTraceJI == <<"elegibilityTrace", j, i>>
            activationI == <<"activation", i>>
            gainJI == <<"gain", j, i>>
        IN GetVariable(elegibilityTraceJI) \o GetVariable(activationI)
           \o GetVariable(gainJI)
           \o (IF isSelfConnected /\ isSelfConnectionGated
               THEN GetVariable(gainJJ) \o GetVariable(weightJJ)
                    \o Statement("activate",
                         assign(elegibilityTraceJI,
                                sum(mul(mul(gainJJ, weightJJ), elegibilityTraceJI),
                                    mul(gainJI, activationI))))
               ELSE IF isSelfConnected
               THEN GetVariable(weightJJ)
                    \o Statement("activate",
                         assign(elegibilityTraceJI,
                                sum(mul(weightJJ, elegibilityTraceJI),
                                    mul(gainJI, activationI))))
               ELSE Statement("activate",
                              assign(elegibilityTraceJI, mul(gainJI, activationI))))
           \o ConcatAll([g \in 1..Len(t.gatedBy[j]) |-> extended(i, g)])
      gains(h) ==
        LET to == t.gatedBy[j][h]
            froms == GetOrEmpty(t.inputsOfGatedBy[to], j)
            gain(g) ==
              LET gainToFrom == <<"gain", to, froms[g]>>
              IN GetVariable(gainToFrom)
                 \o Statement("activate", assign(gainToFrom, activationJ))
        IN IF j \in DOMAIN t.inputsOfGatedBy[to]
           THEN ConcatAll([g \in 1..Len(froms) |-> gain(g)])
           ELSE Throw
  IN Block("activate", <<"Traces of", layerJ, j>>)
     \o GetVariable(activationJ)
     \o GetVariable(derivativeJ)
     \o ConcatAll([h \in 1..Len(t.inputSet[j]) |-> input(h)])
     \o ConcatAll([h \in 1..Len(t.gatedBy[j]) |-> gains(h)])

\* AST.buildPropagation(j, layerJ, targetJ); only part_000 returns before the
\* weight updates of a MAX_POOLING unit
AST_buildPropagation(t, rev, j, layerJ, targetJ) ==
  LET errorResponsibilityJ == <<"errorResponsibility", j>>
      projectedErrorResponsibilityJ == <<"projectedErrorResponsibility", j>>
      gatedErrorResponsibilityJ == <<"gatedErrorResponsibility", j>>
      activationJ == <<"activation", j>>
      derivativeJ == <<"derivative", j>>
      learningRate == <<"learningRate">>
      deltaW == <<"Δw">>
      hasProjectedError == Len(t.projectionSet[j]) > 0 \/ targetJ # NoTarget
      hasGatedError == Len(t.gateSet[j]) > 0
      projected(h) ==
        LET k == t.projectionSet[j][h]
            errorResponsibilityK == <<"errorResponsibility", k>>
            weightKJ == <<"weight", k, j>>
            gainKJ == <<"gain", k, j>>
            isGated == someGate(t.gates, j, k)
        IN GetVariable(errorResponsibilityK)
           \o (IF isGated
               THEN GetVariable(weightKJ) \o GetVariable(gainKJ)
                    \o Statement("propagate",
                         assignSum(projectedErrorResponsibilityJ,
                                   mul(mul(gainKJ, weightKJ), errorResponsibilityK)))
               ELSE GetVariable(weightKJ)
                    \o Statement("propagate",
                         assignSum(projectedErrorResponsibilityJ,
                                   mul(weightKJ, errorResponsibilityK))))
      gated(h) ==
        LET k == t.gateSet[j][h]
            errorResponsibilityK == <<"errorResponsibility", k>>
            big == AST_bigParenthesisTerm(t, "propagate", k, j)
        IN big.effects
           \o (IF big.keepBigParenthesisTerm
               THEN GetVariable(errorResponsibilityK)
                    \o Statement("propagate",
                         assignSum(gatedErrorResponsibilityJ,
                                   mul(errorResponsibilityK,
                                       <<"bigParenthesisTermResult">>)))
               ELSE << >>)
      traced(i, g) ==
        LET k == t.gateSet[j][g]
            errorResponsibilityK == <<"errorResponsibility", k>>
            extendedElegibilityTraceJIK == <<"extendedElegibilityTrace", j, i, k>>
        IN GetVariable(errorResponsibilityK)
           \o GetVariable(extendedElegibilityTraceJIK)
           \o Statement("propagate",
                assignSum(deltaW, mul(errorResponsibilityK,
                                      extendedElegibilityTraceJIK)))
      adjust(h) ==
        LET i == t.inputSet[j][h]
            weightJI == <<"weight", j, i>>
            elegibilityTraceJI == <<"elegibilityTrace", j, i>>
        IN IF hasProjectedError /\ hasGatedError
           THEN SetVariable(deltaW, Null, NoTag) \o GetVariable(projectedErrorResponsibilityJ)
                \o GetVariable(elegibilityTraceJI)
                \o Statement("propagate",
                     assign(deltaW, mul(projectedErrorResponsibilityJ,
                                        elegibilityTraceJI)))
                \o ConcatAll([g \in 1..Len(t.gateSet[j]) |-> traced(i, g)])
                \o GetVariable(learningRate)
                \o Statement("propagate", assignMul(deltaW, learningRate))
                \o GetVariable(weightJI)
                \o Statement("propagate", assignSum(weightJI, deltaW))
           ELSE IF hasProjectedError
           THEN GetVariable(weightJI) \o GetVariable(projectedErrorResponsibilityJ)
                \o GetVariable(elegibilityTraceJI) \o GetVariable(learningRate)
                \o Statement("propagate",
                     assignSum(weightJI,
                               mul(mul(projectedErrorResponsibilityJ,
                                       elegibilityTraceJI),
                                   learningRate)))
           ELSE IF hasGatedError
           THEN SetVariable(deltaW, Null, NoTag)
                \o Statement("propagate", assign(deltaW, number(0)))
                \o ConcatAll([g \in 1..Len(t.gateSet[j]) |-> traced(i, g)])
                \o GetVariable(learningRate)
                \o Statement("propagate", assignMul(deltaW, learningRate))
                \o GetVariable(weightJI)
                \o Statement("propagate", assignSum(weightJI, deltaW))
           ELSE << >>
  IN Block("propagate", <<"Propagation", layerJ, j>>)
     \o (IF targetJ # NoTarget
         THEN GetVariable(errorResponsibilityJ)
              \o GetVariable(projectedErrorResponsibilityJ)
              \o GetVariable(activationJ)
              \o Statement("propagate",
                           assign(errorResponsibilityJ, sub(targetJ, activationJ)))
              \o Statement("propagate",
                           assign(projectedErrorResponsibilityJ, errorResponsibilityJ))
         ELSE GetVariable(projectedErrorResponsibilityJ)
              \o (IF hasProjectedError
                  THEN Statement("propagate",
                                 assign(projectedErrorResponsibilityJ, number(0)))
                  ELSE << >>)
              \o ConcatAll([h \in 1..Len(t.projectionSet[j]) |-> projected(h)])
              \o GetVariable(derivativeJ)
              \o (IF hasProjectedError
                  THEN Statement("propagate",
                                 assignMul(projectedErrorResponsibilityJ, derivativeJ))
                  ELSE << >>)
              \o GetVariable(gatedErrorResponsibilityJ)
              \o (IF hasGatedError
                  THEN Statement("propagate",
                                 assignMul(gatedErrorResponsibilityJ, number(0)))
                  ELSE << >>)
              \o ConcatAll([h \in 1..Len(t.gateSet[j]) |-> gated(h)])
              \o (IF hasGatedError
                  THEN Statement("propagate",
                                 assignMul(gatedErrorResponsibilityJ, derivativeJ))
                  ELSE << >>)
              \o GetVariable(errorResponsibilityJ)
              \o (IF hasProjectedError /\ hasGatedError
                  THEN Statement("propagate",
                         assign(errorResponsibilityJ,
                                sum(projectedErrorResponsibilityJ,
                                    gatedErrorResponsibilityJ)))
                  ELSE IF hasProjectedError
                  THEN Statement("propagate",
                         assign(errorResponsibilityJ, projectedErrorResponsibilityJ))
                  ELSE IF hasGatedError
                  THEN Statement("propagate",
                         assign(errorResponsibilityJ, gatedErrorResponsibilityJ))
                  ELSE << >>))
     \o (IF rev = "part_000" /\ t.activationFunction[j] = MAX_POOLING THEN << >>
         ELSE ConcatAll([h \in 1..Len(t.inputSet[j]) |-> adjust(h)]))
\* the buckets of a layer: one per whole-layer kind, in the order the kinds
\* first appear, each with its units in layer order
Buckets(t, units, layer) ==
  LET whole == SelectSeq(units, LAMBDA u : WholeLayerKind(t.activationFunction[u]))
      firstOf(x) == \A y \in 1..(x - 1) :
                      t.activationFunction[whole[y]] # t.activationFunction[whole[x]]
      firsts == SelectSeq([x \in 1..Len(whole) |-> x], firstOf)
  IN [z \in 1..Len(firsts) |->
        LET type == t.activationFunction[whole[firsts[z]]]
        IN [units |-> SelectSeq(whole, LAMBDA u : t.activationFunction[u] = type),
            type |-> type, layer |-> layer]]

\* the passes of AST.build over one layer (x is its place in layers, the layer
\* number is x - 1)
AST_buildLayer(t, rev, x) ==
  LET layer == x - 1
      units == t.layers[x]
      outputLayer == Len(t.layers) - 1
      pooled(u) == rev = "part_000" /\ t.activationFunction[u] = MAX_POOLING
      each(f(_)) == ConcatAll([y \in 1..Len(units) |-> f(units[y])])
      state(u) == IF layer = 0 \/ pooled(u) THEN << >>
                  ELSE AST_buildComputeState(t, rev, u, layer)
      activation(u) ==
        IF layer = 0
        THEN GetVariable(<<"activation", u>>) \o Push("inputs", <<"activation", u>>)
        ELSE IF layer = outputLayer
        THEN AST_buildActivation(t, u, layer) \o Push("outputs", <<"activation", u>>)
        ELSE AST_buildActivation(t, u, layer)
      buckets == Buckets(t, units, layer)
      softmaxUnits == SelectSeq(units, LAMBDA u : t.activationFunction[u] = SOFTMAX)
      wholeLayer ==
        IF rev = "part_000"
        THEN ConcatAll([z \in 1..Len(buckets) |->
                          AST_buildWholeLayerActivation(t, buckets[z])])
        ELSE IF Len(softmaxUnits) > 1 THEN AST_softmaxUnits(softmaxUnits, layer)
        ELSE << >>
      derivative(u) == IF layer = 0 THEN << >>
                       ELSE AST_buildActivationDerivative(t, u, layer)
      traces(u) == IF layer = 0 \/ pooled(u) THEN << >>
                   ELSE AST_buildActivationTraces(t, u, layer)
  IN IF rev = "part_000"
     THEN each(state) \o each(activation) \o wholeLayer \o each(derivative)
          \o each(traces)
     ELSE each(state) \o each(activation) \o each(derivative) \o wholeLayer
          \o each(traces)

\* variant with a slip: both loops walk the units of a layer upwards
AST_buildPropagations_Ascending(t, rev) ==
  LET n == Len(t.layers)
      outputs == t.layers[n]
      output(y) ==
        LET unit == y - 1
            targetJ == <<"target", unit>>
        IN (IF rev = "part_000" THEN SetVariable(targetJ, 0, NoTag)
            ELSE SetVariable(targetJ, Null, "target"))
           \o Push("targets", targetJ)
           \o AST_buildPropagation(t, rev, outputs[unit + 1], n - 1, targetJ)
      hidden(z) ==
        LET x == n - z
            units == t.layers[x]
        IN ConcatAll([y \in 1..Len(units) |->
             AST_buildPropagation(t, rev, units[y], x - 1, NoTarget)])
  IN IF n = 0 THEN Throw
     ELSE ConcatAll([y \in 1..Len(outputs) |-> output(y)])
          \o ConcatAll([z \in 1..(n - 2) |-> hidden(z)])

\* variant with a slip: the hidden layers are walked from layer 1 upwards and
\* before the output layer
AST_buildPropagations_HiddenFirst(t, rev) ==
  LET n == Len(t.layers)
      outputs == t.layers[n]
      output(y) ==
        LET unit == Len(outputs) - y
            targetJ == <<"target", unit>>
        IN (IF rev = "part_000" THEN SetVariable(targetJ, 0, NoTag)
            ELSE SetVariable(targetJ, Null, "target"))
           \o Push("targets", targetJ)
           \o AST_buildPropagation(t, rev, outputs[unit + 1], n - 1, targetJ)
      hidden(z) ==
        LET x == z + 1
            units == t.layers[x]
        IN ConcatAll([y \in 1..Len(units) |->
             AST_buildPropagation(t, rev, units[Len(units) + 1 - y], x - 1, NoTarget)])
  IN IF n = 0 THEN Throw
     ELSE ConcatAll([z \in 1..(n - 2) |-> hidden(z)])
          \o ConcatAll([y \in 1..Len(outputs) |-> output(y)])

\* the two propagation loops of AST.build: the output layer with its targets,
\* then the hidden layers, every layer from its last unit to its first
AST_buildPropagations(t, rev) ==
  LET n == Len(t.layers)
      outputs == t.layers[n]
      output(y) ==
        LET unit == Len(outputs) - y
            targetJ == <<"target", unit>>
        IN (IF rev = "part_000" THEN SetVariable(targetJ, 0, NoTag)
            ELSE SetVariable(targetJ, Null, "target"))
           \o Push("targets", targetJ)
           \o AST_buildPropagation(t, rev, outputs[unit + 1], n - 1, targetJ)
      hidden(z) ==
        LET x == n - z
            units == t.layers[x]
        IN ConcatAll([y \in 1..Len(units) |->
             AST_buildPropagation(t, rev, units[Len(units) + 1 - y], x - 1, NoTarget)])
  IN IF n = 0 THEN Throw
     ELSE ConcatAll([y \in 1..Len(outputs) |-> output(y)])
          \o ConcatAll([z \in 1..(n - 2) |-> hidden(z)])

\* the effects of AST.build() after reset(), in program order
AST_buildEffects(t, rev) ==
  (IF rev = "AST.ts"
   THEN SetVariable(<<"learningRate">>, DefaultLearningRate, NoTag)
        \o SetVariable(<<"seed">>, Random, NoTag)
   ELSE << >>)
  \o << <<"function", "activate">>, <<"function", "propagate">> >>
  \o ConcatAll([x \in 1..Len(t.layers) |-> AST_buildLayer(t, rev, x)])
  \o AST_buildPropagations(t, rev)

\* an AST before its first build, over its topology's heap
NewAST(rev, heap) ==
  [rev |-> rev, heap |-> heap, AST |-> document, inputs |-> << >>,
   outputs |-> << >>, targets |-> << >>, exception |-> NoException,
   built |-> FALSE]

AST_applyEffect(b, effect) ==
  CASE effect[1] = "getVariable" ->
         IF HeapIndexOf(b.heap, effect[2]) # 0 THEN b
         ELSE [b EXCEPT !.exception = NotDeclared]
    [] effect[1] = "setVariable" ->
         [b EXCEPT !.heap = Heap_alloc(@, effect[2], effect[3], effect[4])]
    [] effect[1] = "function" -> [b EXCEPT !.AST = Append(@, func(effect[2]))]
    [] effect[1] = "block" -> [b EXCEPT !.AST = AddBlock(@, effect[2], effect[3])]
    [] effect[1] = "statement" ->
         [b EXCEPT !.AST = AddStatement(@, effect[2], effect[3])]
    [] effect[1] = "push" -> [b EXCEPT ![effect[2]] = Append(@, effect[3])]
    [] effect[1] = "throw" -> [b EXCEPT !.exception = TypeError]

\* the effects lo..hi of the sequence, in order, up to the first that throws
RECURSIVE AST_runRange(_, _, _, _)
AST_runRange(b, effects, lo, hi) ==
  IF lo > hi \/ ~Running(b) THEN b
  ELSE IF lo = hi THEN AST_applyEffect(b, effects[lo])
  ELSE LET mid == (lo + hi) \div 2
       IN AST_runRange(AST_runRange(b, effects, lo, mid), effects, mid + 1, hi)

\* AST.build(): reset, the effects, and the targets put back in layer order
AST_build(t, rev) ==
  LET run(effects) == AST_runRange(NewAST(rev, t.heap), effects, 1, Len(effects))
      finish(b) ==
        IF Running(b) THEN [b EXCEPT !.targets = Reverse(@), !.built = TRUE] ELSE b
  IN finish(run(AST_buildEffects(t, rev)))

\* ------------------------------------------------------- the state machine
Units(n) == 0..(n - 1)

\* the last call: its name and arguments, whether it took an early return,
\* and the exception it ended with
Call(op, from, to, gater, weight, bias, returned, exception) ==
  [op |-> op, from |-> from, to |-> to, gater |-> gater, weight |-> weight,
   bias |-> bias, returned |-> returned, exception |-> exception]

\* the engine the caller is left with when the call is over
Returned(e) == [e EXCEPT !.exception = NoException]

Init ==
  /\ impl \in {"Topology", "Lysergic"}
  /\ topology = Topology_constructor
  /\ engine \in IF impl = "Lysergic"
                THEN {Lysergic_constructor(bias, strict) :
                        bias \in BOOLEAN, strict \in BOOLEAN}
                ELSE {Lysergic_constructor(TRUE, TRUE)}
  /\ allocator = HeapUnderTest("Heap")
  /\ ast = NewAST("part_000", NewHeap)
  /\ call = Call("new", Null, Null, Null, Null, engine.biasUnit # Null, FALSE, NoException)
  /\ calls = 0

TopologyAddUnit ==
  /\ impl = "Topology" /\ calls < MaxCalls /\ topology.units < MaxUnits
  /\ \E bias \in BOOLEAN, activationFunction \in ActivationKinds :
       /\ topology' = Topology_addUnit(topology, bias, activationFunction)
       /\ call' = Call("addUnit", Null, Null, Null, Null, bias, FALSE, NoException)
  /\ calls' = calls + 1
  /\ UNCHANGED <<impl, engine, allocator, ast>>

TopologyAddConnection ==
  /\ impl = "Topology" /\ calls < MaxCalls
  /\ \E from \in Units(topology.units), to \in Units(topology.units), weight \in Weights :
       /\ topology' = Topology_addConnection(topology, from, to, weight)
       /\ call' = Call("addConnection", from, to, Null, weight, FALSE,
                       someConnection(topology.connections, from, to), NoException)
  /\ calls' = calls + 1
  /\ UNCHANGED <<impl, engine, allocator, ast>>

TopologyAddGate ==
  /\ impl = "Topology" /\ calls < MaxCalls
  /\ \E from \in Units(topology.units), to \in Units(topology.units),
        gater \in Units(topology.units) :
       /\ topology' = Topology_addGate(topology, from, to, gater)
       /\ call' = Call("addGate", from, to, gater, Null, FALSE,
                       someGate(topology.gates, from, to) \/ from = topology.biasUnit,
                       NoException)
  /\ calls' = calls + 1
  /\ UNCHANGED <<impl, engine, allocator, ast>>

TopologyAddLayer ==
  /\ impl = "Topology" /\ calls < MaxCalls
  /\ \E size \in 0..MaxLayerSize, bias \in BOOLEAN, activationFunction \in ActivationKinds :
       /\ topology.units + size <= MaxUnits
       /\ topology' = Topology_addLayer(topology, size, bias, activationFunction)
       /\ call' = Call("addLayer", Null, Null, Null, Null, bias, FALSE, NoException)
  /\ calls' = calls + 1
  /\ UNCHANGED <<impl, engine, allocator, ast>>

LysergicAddUnit ==
  /\ impl = "Lysergic" /\ calls < MaxCalls /\ engine.size < MaxUnits
  /\ \E biased \in BOOLEAN, activationFunction \in ActivationKinds :
       \E e \in {Lysergic_addUnit(engine, activationFunction, biased)} :
          /\ engine' = Returned(e)
          /\ call' = Call("addUnit", Null, Null, Null, Null, biased, FALSE, e.exception)
  /\ calls' = calls + 1
  /\ UNCHANGED <<impl, topology, allocator, ast>>

LysergicAddConnection ==
  /\ impl = "Lysergic" /\ calls < MaxCalls
  /\ \E from \in Units(engine.size), to \in Units(engine.size), weight \in Weights :
       \E e \in {Lysergic_addConnection(engine, from, to, weight)} :
          /\ engine' = Returned(e)
          /\ call' = Call("addConnection", from, to, Null, weight, FALSE,
                          someConnection(engine.connections, from, to), e.exception)
  /\ calls' = calls + 1
  /\ UNCHANGED <<impl, topology, allocator, ast>>

LysergicAddGate ==
  /\ impl = "Lysergic" /\ calls < MaxCalls
  /\ \E from \in Units(engine.size), to \in Units(engine.size),
        gater \in Units(engine.size) :
       \E e \in {Lysergic_addGate(engine, from, to, gater)} :
          /\ engine' = Returned(e)
          /\ call' = Call("addGate", from, to, gater, Null, FALSE,
                          someGate(engine.gates, from, to) \/ from = engine.biasUnit,
                          e.exception)
  /\ calls' = calls + 1
  /\ UNCHANGED <<impl, topology, allocator, ast>>

LysergicAddLayer ==
  /\ impl = "Lysergic" /\ calls < MaxCalls
  /\ \E size \in 0..MaxLayerSize, biased \in BOOLEAN, activationFunction \in ActivationKinds :
       \E e \in {Lysergic_addLayer(engine, size, activationFunction, biased)} :
          /\ engine.size + size <= MaxUnits
          /\ engine' = Returned(e)
          /\ call' = Call("addLayer", Null, Null, Null, Null, biased, FALSE, e.exception)
  /\ calls' = calls + 1
  /\ UNCHANGED <<impl, topology, allocator, ast>>

LysergicLock ==
  /\ impl = "Lysergic" /\ calls < MaxCalls
  /\ \E e \in {Lysergic_lock(engine)} :
        /\ engine' = Returned(e)
        /\ call' = Call("lock", Null, Null, Null, Null, FALSE, FALSE, e.exception)
  /\ calls' = calls + 1
  /\ UNCHANGED <<impl, topology, allocator, ast>>

\* getAST(): the first use builds the network
LysergicGetAST ==
  /\ impl = "Lysergic" /\ calls < MaxCalls
  /\ \E e \in {Lysergic_getAST(engine)} :
        /\ engine' = Returned(e)
        /\ call' = Call("getAST", Null, Null, Null, Null, FALSE, engine.locked, e.exception)
  /\ calls' = calls + 1
  /\ UNCHANGED <<impl, topology, allocator, ast>>

\* getVariables(): the first use builds the network
LysergicGetVariables ==
  /\ impl = "Lysergic" /\ calls < MaxCalls
  /\ \E e \in {Lysergic_getVariables(engine)} :
        /\ engine' = Returned(e)
        /\ call' = Call("getVariables", Null, Null, Null, Null, FALSE, engine.locked,
                        e.exception)
  /\ calls' = calls + 1
  /\ UNCHANGED <<impl, topology, allocator, ast>>

Next ==
  \/ TopologyAddUnit
  \/ TopologyAddConnection
  \/ TopologyAddGate
  \/ TopologyAddLayer
  \/ LysergicAddUnit
  \/ LysergicAddConnection
  \/ LysergicAddGate
  \/ LysergicAddLayer
  \/ LysergicLock
  \/ LysergicGetAST
  \/ LysergicGetVariables

Spec == Init /\ [][Next]_vars

\* ---------------------------------------------- the heap as a state machine
HeapInit ==
  /\ impl = "Heap"
  /\ topology = Topology_constructor
  /\ engine = Lysergic_constructor(TRUE, TRUE)
  /\ allocator \in {HeapUnderTest(owner) : owner \in Owners}
  /\ ast = NewAST("part_000", NewHeap)
  /\ call = Call("new", Null, Null, Null, Null, FALSE, FALSE, NoException)
  /\ calls = 0

\* setVariable(key, value) -> alloc(key, value); Lysergic has alloc only
HeapSetVariable ==
  /\ impl = "Heap" /\ calls < MaxCalls
  /\ \E key \in HeapKeys, value \in HeapValues :
       LET store == Alloc_of(allocator.owner, allocator.store, key, value, NoTag)
           id == HandleId(store, key)
       IN /\ allocator' = [allocator EXCEPT !.store = store, !.handle = id,
                                  !.first = IF key \in DOMAIN @ THEN @ ELSE Put(@, key, id)]
          /\ call' = Call("setVariable", key, Null, Null, value, FALSE,
                          Heap_hasVariable(allocator.store, key), NoException)
  /\ calls' = calls + 1
  /\ UNCHANGED <<impl, topology, engine, ast>>

\* getVariable(key): the handle, or the "is not declared" Error
HeapGetVariable ==
  /\ impl = "Heap" /\ calls < MaxCalls /\ allocator.owner # "Lysergic"
  /\ \E key \in HeapKeys :
       /\ allocator' = [allocator EXCEPT !.handle = HandleId(allocator.store, key)]
       /\ call' = Call("getVariable", key, Null, Null, Null, FALSE, FALSE,
                       IF Heap_hasVariable(allocator.store, key) THEN NoException
                       ELSE NotDeclared)
  /\ calls' = calls + 1
  /\ UNCHANGED <<impl, topology, engine, ast>>

\* build({minHeapSize}) without a buffer of the caller
HeapBuild ==
  /\ impl = "Heap" /\ calls < MaxCalls /\ allocator.owner # "Lysergic"
  /\ \E minHeapSize \in MinHeapSizes :
       /\ allocator' = IF allocator.owner = "Heap" THEN Heap_build(allocator, minHeapSize, Undefined)
                  ELSE ASTHeap_build(allocator, minHeapSize, Undefined)
       /\ call' = Call("build", Null, Null, Null, minHeapSize, FALSE, FALSE, NoException)
  /\ calls' = calls + 1
  /\ UNCHANGED <<impl, topology, engine, ast>>

HeapNext == HeapSetVariable \/ HeapGetVariable \/ HeapBuild

HeapSpec == HeapInit /\ [][HeapNext]_vars

\* ------------------------------------------- the builders as a state machine
Revisions == {"part_000", "AST.ts"}
BuildKinds == {LOGISTIC_SIGMOID, SOFTMAX, MAX_POOLING}

\* what a client passes to addLayer, layer by layer
LayerOptions == [size : 1..MaxLayerSize, activationFunction : BuildKinds]
RECURSIVE LayerPlans(_)
LayerPlans(n) ==
  IF n = 0 THEN {<< >>}
  ELSE LayerPlans(n - 1)
       \cup {Append(plan, options) :
               plan \in {p \in LayerPlans(n - 1) : Len(p) = n - 1},
               options \in LayerOptions}

\* addConnection(from, to) for the pairs of the list, in order
RECURSIVE Topology_connect(_, _)
Topology_connect(t, pairs) ==
  IF Len(pairs) = 0 THEN t
  ELSE Topology_connect(Topology_addConnection(t, Head(pairs)[1], Head(pairs)[2], Null),
                        Tail(pairs))

\* every unit of a layer connected to every unit of the next one
AllToAll(layers) ==
  ConcatAll([x \in 1..(Len(layers) - 1) |->
    ConcatAll([y \in 1..Len(layers[x]) |->
      [z \in 1..Len(layers[x + 1]) |-> <<layers[x][y], layers[x + 1][z]>>]])])

\* new Topology(), an addLayer per entry of the plan, the layers projected
\* onto each other; with `gated`, the first unit of layer 1 is self-connected
\* and gates the connection from the first input to the first output unit
RECURSIVE Topology_addLayers(_, _, _)
Topology_addLayers(t, plan, bias) ==
  IF Len(plan) = 0 THEN t
  ELSE Topology_addLayers(
         Topology_addLayer(t, Head(plan).size, bias, Head(plan).activationFunction),
         Tail(plan), bias)

LayeredTopology(plan, bias, gated) ==
  LET gate(t2, from, to, gater) ==
        Topology_addGate(
          Topology_addConnection(Topology_addConnection(t2, gater, gater, Null),
                                 from, to, Null),
          from, to, gater)
      gates(t2) ==
        IF gated /\ Len(t2.layers) >= 2
        THEN gate(t2, t2.layers[1][1], t2.layers[Len(t2.layers)][1], t2.layers[2][1])
        ELSE t2
      connect(t1) == gates(Topology_connect(t1, AllToAll(t1.layers)))
  IN connect(Topology_addLayers(Topology_constructor, plan, bias))

\* the same for a Lysergic engine
RECURSIVE Lysergic_addLayers(_, _, _)
Lysergic_addLayers(e, sizes, biased) ==
  IF Len(sizes) = 0 THEN e
  ELSE Lysergic_addLayers(Lysergic_addLayer(e, Head(sizes), LOGISTIC_SIGMOID, biased),
                          Tail(sizes), biased)

RECURSIVE Lysergic_connect(_, _)
Lysergic_connect(e, pairs) ==
  IF Len(pairs) = 0 THEN e
  ELSE Lysergic_connect(Lysergic_addConnection(e, Head(pairs)[1], Head(pairs)[2], Null),
                        Tail(pairs))

LayeredEngine(plan, bias) ==
  LET connect(e1) == Returned(Lysergic_connect(e1, AllToAll(e1.layers)))
  IN connect(Lysergic_addLayers(Lysergic_constructor(bias, TRUE),
                                [x \in 1..Len(plan) |-> plan[x].size], bias))

BuildInit ==
  /\ impl \in {"AST", "Lysergic"}
  /\ \E plan \in LayerPlans(MaxLayers) \ {<< >>}, bias \in BOOLEAN, gated \in BOOLEAN :
       IF impl = "AST"
       THEN /\ topology = LayeredTopology(plan, bias, gated)
            /\ engine = Lysergic_constructor(TRUE, TRUE)
       ELSE /\ topology = Topology_constructor
            /\ engine = LayeredEngine(plan, bias)
  /\ ast \in {NewAST(rev, NewHeap) : rev \in IF impl = "AST" THEN Revisions
                                             ELSE {"part_000"}}
  /\ allocator = HeapUnderTest("Heap")
  /\ call = Call("new", Null, Null, Null, Null, FALSE, FALSE, NoException)
  /\ calls = 0

\* the client declares the learning rate cell on the heap of the topology
ASTDeclareLearningRate ==
  /\ impl = "AST" /\ calls < MaxCalls
  /\ topology' = [topology EXCEPT
                    !.heap = Heap_setVariable(@, <<"learningRate">>, DefaultLearningRate)]
  /\ call' = Call("setVariable", <<"learningRate">>, Null, Null, DefaultLearningRate,
                  FALSE, FALSE, NoException)
  /\ calls' = calls + 1
  /\ UNCHANGED <<impl, engine, allocator, ast>>

\* ast.build()
ASTBuild ==
  /\ impl = "AST" /\ calls < MaxCalls
  /\ ast' = AST_build(topology, ast.rev)
  /\ topology' = [topology EXCEPT !.heap = ast'.heap]
  /\ call' = Call("build", Null, Null, Null, Null, FALSE, FALSE, ast'.exception)
  /\ calls' = calls + 1
  /\ UNCHANGED <<impl, engine, allocator>>

\* what a Float64Array holds after `memory[id] = undefined`
NaN == 0 - 5

\* the vectors a client passes to setInputs / setTargets
Vectors == {<<3>>, <<7, 3>>}

\* memory[ids[x]] = values[x] for every x, in order; a Float64Array of `slots`
\* cells drops a write to an index it does not have
WriteCells(memory, slots, ids, values) ==
  LET written == {x \in DOMAIN ids : ids[x] < slots}
  IN [id \in DOMAIN memory \cup {ids[x] : x \in written} |->
        IF \E x \in written : ids[x] = id
        THEN values[CHOOSE x \in written :
                      /\ ids[x] = id
                      /\ \A y \in written : ids[y] = id => y <= x]
        ELSE memory[id]]

\* setInputs(inputs): for (i < inputs.length) memory[this.inputs[i].id] = inputs[i];
\* `memory` is null before the first build, this.inputs[i] is undefined past
\* the end of the list
Heap_setInputs(m, inputs) ==
  LET n == Min(Len(inputs), Len(m.ids))
  IN IF m.null THEN [m EXCEPT !.exception = TypeError]
     ELSE [m EXCEPT
             !.memory = WriteCells(@, m.slots, SubSeq(m.ids, 1, n), SubSeq(inputs, 1, n)),
             !.exception = IF Len(inputs) > Len(m.ids) THEN TypeError ELSE NoException]

\* setTargets(targets): for (i < this.targets.length) memory[this.targets[i].id] = targets[i]
Heap_setTargets(m, targets) ==
  IF Len(m.ids) = 0 THEN m
  ELSE IF m.null THEN [m EXCEPT !.exception = TypeError]
  ELSE [m EXCEPT
          !.memory = WriteCells(@, m.slots, m.ids,
                                [x \in DOMAIN m.ids |->
                                   IF x <= Len(targets) THEN targets[x] ELSE NaN])]

\* the memory of the Heap of an AST and the ids of the cells of one of the
\* lists of the AST
HeapView(list) ==
  [null |-> allocator.buffer = Null,
   slots |-> IF allocator.buffer = Null THEN 0 ELSE allocator.buffer \div 8,
   memory |-> allocator.memory,
   ids |-> [x \in DOMAIN list |-> HandleId(ast.heap, list[x])],
   exception |-> NoException]

\* the same for the engine, whose buffer has room for 8192 cells or more
EngineView(list) ==
  [null |-> ~engine.locked,
   slots |-> Max(engine.allocCount, DefaultMinHeapSize \div 8),
   memory |-> engine.memory,
   ids |-> [x \in DOMAIN list |->
              engine.variables[VariableIndexOf(engine.variables, list[x])].id],
   exception |-> NoException]

\* new Heap({ast}).build({minHeapSize}) of Heap.ts, over the cells of the AST
ASTHeapBuild ==
  /\ impl = "AST" /\ ast.rev = "AST.ts" /\ calls < MaxCalls
  /\ \E minHeapSize \in MinHeapSizes :
       /\ allocator' = ASTHeap_build([HeapUnderTest("AST") EXCEPT !.store = ast.heap],
                                     minHeapSize, Undefined)
       /\ call' = Call("Heap.build", Null, Null, Null, minHeapSize, FALSE, FALSE,
                       NoException)
  /\ calls' = calls + 1
  /\ UNCHANGED <<impl, topology, engine, ast>>

\* heap.setInputs(inputs) of Heap.ts
ASTHeapSetInputs ==
  /\ impl = "AST" /\ ast.rev = "AST.ts" /\ calls < MaxCalls
  /\ \E inputs \in Vectors :
       LET m == Heap_setInputs(HeapView(ast.inputs), inputs)
       IN /\ allocator' = [allocator EXCEPT !.memory = m.memory]
          /\ call' = Call("setInputs", Null, Null, Null, inputs, FALSE, FALSE, m.exception)
  /\ calls' = calls + 1
  /\ UNCHANGED <<impl, topology, engine, ast>>

\* heap.setTargets(targets) of Heap.ts
ASTHeapSetTargets ==
  /\ impl = "AST" /\ ast.rev = "AST.ts" /\ calls < MaxCalls
  /\ \E targets \in Vectors :
       LET m == Heap_setTargets(HeapView(ast.targets), targets)
       IN /\ allocator' = [allocator EXCEPT !.memory = m.memory]
          /\ call' = Call("setTargets", Null, Null, Null, targets, FALSE, FALSE, m.exception)
  /\ calls' = calls + 1
  /\ UNCHANGED <<impl, topology, engine, ast>>

\* engine.setInputs(inputs)
LysergicSetInputs ==
  /\ impl = "Lysergic" /\ calls < MaxCalls
  /\ \E inputs \in Vectors :
       LET m == Heap_setInputs(EngineView(engine.inputs), inputs)
       IN /\ engine' = [engine EXCEPT !.memory = m.memory]
          /\ call' = Call("setInputs", Null, Null, Null, inputs, FALSE, FALSE, m.exception)
  /\ calls' = calls + 1
  /\ UNCHANGED <<impl, topology, allocator, ast>>

\* engine.setTargets(targets)
LysergicSetTargets ==
  /\ impl = "Lysergic" /\ calls < MaxCalls
  /\ \E targets \in Vectors :
       LET m == Heap_setTargets(EngineView(engine.targets), targets)
       IN /\ engine' = [engine EXCEPT !.memory = m.memory]
          /\ call' = Call("setTargets", Null, Null, Null, targets, FALSE, FALSE, m.exception)
  /\ calls' = calls + 1
  /\ UNCHANGED <<impl, topology, allocator, ast>>

BuildNext == ASTDeclareLearningRate \/ ASTBuild \/ LysergicLock

BuildSpec == BuildInit /\ [][BuildNext]_vars

\* the value of an expression node over a memory of numbers: a number, a
\* max(lhs, rhs), a kronecker(lhs, rhs) (lhs == rhs ? 1 : 0), or the cell of
\* a variable
RECURSIVE Eval(_, _)
Eval(node, memory) ==
  IF node[1] = "number" THEN node[2]
  ELSE IF node[1] = "binary" /\ node[2] = "max"
  THEN Max(Eval(node[3], memory), Eval(node[4], memory))
  ELSE IF node[1] = "binary" /\ node[2] = "kronecker"
  THEN (IF Eval(node[3], memory) = Eval(node[4], memory) THEN 1 ELSE 0)
  ELSE memory[node]

\* the statements lo..hi of a block, each an assignment target = rhs
RECURSIVE Execute(_, _, _, _)
Execute(children, lo, hi, memory) ==
  IF lo > hi THEN memory
  ELSE Execute(children, lo + 1, hi,
               Put(memory, children[lo][3], Eval(children[lo][4], memory)))

\* the statements of a block that assign a max(...)
MaxStatements(children) ==
  {y \in DOMAIN children :
     /\ children[y][2] = "="
     /\ children[y][4][1] = "binary"
     /\ children[y][4][2] = "max"}

\* the state values the units of a softmax bucket may hold
StateValues == {0 - 2, 0 - 1, 1}

\* the softmax block of a layer runs up to its last maximum-finding statement,
\* over state values of the caller's choice; the call records the state
\* values (weight) and the maximum cell afterwards (to)
SoftmaxMaximum ==
  /\ impl = "AST" /\ ast.built /\ calls < MaxCalls
  /\ LET body == ast.AST[CHOOSE x \in DOMAIN ast.AST : ast.AST[x].name = "activate"].body
     IN \E p \in DOMAIN body :
          /\ \/ body[p].name[1] = "Softmax"
             \/ body[p].name[1] = "Whole Layer Activation" /\ body[p].name[3] = SOFTMAX
          /\ LET children == body[p].children
                 last == CHOOSE y \in MaxStatements(children) :
                           \A z \in MaxStatements(children) : z <= y
                 maximum == children[last][3]
                 states == [y \in 1..Cardinality(MaxStatements(children)) |->
                              children[last - Cardinality(MaxStatements(children)) + y][4][4]]
             IN \E values \in [DOMAIN states -> StateValues] :
                  LET memory == [key \in Range(states) |->
                                   values[CHOOSE y \in DOMAIN states : states[y] = key]]
                      after == Execute(children, 1, last, memory)
                  IN call' = Call("softmaxMaximum", body[p].name[2], after[maximum], Null,
                                  values, FALSE, FALSE, NoException)
  /\ calls' = calls + 1
  /\ UNCHANGED <<impl, topology, engine, allocator, ast>>

\* the activations the units of a network may hold when a pooling block runs
ActivationValues == {1, 2}

\* the pooling units of a layer (numbered from 0), in layer order, and the
\* activation cells their block reads or writes
PoolingUnits(layer) ==
  SelectSeq(topology.layers[layer + 1],
            LAMBDA u : topology.activationFunction[u] = MAX_POOLING)

PoolingCells(layer) ==
  {<<"activation", u>> :
     u \in Range(PoolingUnits(layer))
            \cup UNION {Range(topology.inputsOf[v]) : v \in Range(PoolingUnits(layer))}}

\* the max-pooling block of a layer runs from its first statement to its
\* last, over activations of the caller's choice; the call records the layer
\* (from), the activations before (weight) and the memory afterwards (to).
\* A run leaves the builder as it was: it is the last call of a scenario.
MaxPooling ==
  /\ impl = "AST" /\ ast.built /\ calls < MaxCalls
  /\ LET body == ast.AST[CHOOSE x \in DOMAIN ast.AST : ast.AST[x].name = "activate"].body
     IN \E p \in DOMAIN body :
          /\ body[p].name[1] = "Whole Layer Activation"
          /\ body[p].name[3] = MAX_POOLING
          /\ \E values \in [PoolingCells(body[p].name[2]) -> ActivationValues] :
               call' = Call("maxPooling", body[p].name[2],
                            Execute(body[p].children, 1, Len(body[p].children), values),
                            Null, values, FALSE, FALSE, NoException)
  /\ calls' = MaxCalls
  /\ UNCHANGED <<impl, topology, engine, allocator, ast>>

\* the part_000 builder over the topologies with a max-pooling layer, and
\* the pooling blocks of the built network in use
PoolInit ==
  /\ BuildInit /\ impl = "AST" /\ ast.rev = "part_000"
  /\ \E u \in DOMAIN topology.activationFunction :
       topology.activationFunction[u] = MAX_POOLING

PoolNext == ASTBuild \/ MaxPooling

PoolSpec == PoolInit /\ [][PoolNext]_vars

\* the builders with the heap of the built network in use, over the
\* topologies of one or two layers
RunInit == BuildInit /\ Len(topology.layers) <= 2 /\ Len(engine.layers) <= 2

RunNext ==
  \/ ASTDeclareLearningRate
  \/ ASTBuild
  \/ LysergicLock
  \/ ASTHeapBuild
  \/ ASTHeapSetInputs
  \/ ASTHeapSetTargets
  \/ LysergicSetInputs
  \/ LysergicSetTargets
  \/ SoftmaxMaximum

RunSpec == RunInit /\ [][RunNext]_vars

\* ------------------------------------------------- serializing an engine
\* JSON.stringify of an array: every index below length, a hole written as
\* null (and so is a slot that holds undefined)
Holes(a) ==
  [x \in 0..(ArrayLength(a) - 1) |->
     IF x \in DOMAIN a /\ a[x] # Undefined THEN a[x] ELSE Null]

\* the same for an array of arrays; NullRow stands for a null where a row
\* would be, and is written as null again
NullRow == [x \in {0 - 1} |-> Null]
IsNullRow(a) == DOMAIN a = {0 - 1}

HolesOfRows(a, f(_)) ==
  [x \in 0..(ArrayLength(a) - 1) |->
     IF x \in DOMAIN a /\ ~IsNullRow(a[x]) THEN f(a[x]) ELSE NullRow]

\* an array of cells: a Proxy answers `toJSON` with the memory cell of every
\* index below the length it captured, 0 where there is no such cell
CellsToJSON(e, slot, a) ==
  IF slot \in DOMAIN e.proxies
  THEN [x \in 0..(e.proxies[slot] - 1) |-> ProxyGet(e, Append(slot, x))]
  ELSE IF IsNullRow(a) THEN NullRow
  ELSE Holes(a)

Cells1 ==
  {"state", "activation", "derivative", "errorResponsibility",
   "projectedErrorResponsibility", "gatedErrorResponsibility"}
Cells2 == {"weight", "gain", "elegibilityTrace", "derivativeTerm"}
Cells3 == {"extendedElegibilityTrace"}
Lists2 == {"inputsOf", "projectedBy", "gatersOf", "gatedBy", "projectionSet",
           "gateSet", "inputSet"}
\* one entry per unit, no holes
Kinds == {"activationFunction"}
Lists3 == {"inputsOfGatedBy"}
Plain == {"connections", "gates", "layers", "size", "biasUnit"}

\* Lysergic.toJSON(): JSON.parse(JSON.stringify({...the 26 fields}))
Lysergic_toJSON(e) ==
  [name \in Cells1 \cup Cells2 \cup Cells3 \cup Lists2 \cup Lists3 \cup Kinds \cup Plain |->
     IF name \in Kinds THEN [x \in 0..(ArrayLength(e[name]) - 1) |-> e[name][x]]
     ELSE IF name \in Cells1 THEN CellsToJSON(e, <<name>>, e[name])
     ELSE IF name \in Cells2
     THEN HolesOfRows([j \in DOMAIN e[name] |->
                         CellsToJSON(e, <<name, j>>, e[name][j])],
                      LAMBDA row : row)
     ELSE IF name \in Cells3
     THEN HolesOfRows([j \in DOMAIN e[name] |->
                         IF IsNullRow(e[name][j]) THEN NullRow
                         ELSE HolesOfRows([i \in DOMAIN e[name][j] |->
                                CellsToJSON(e, <<name, j, i>>, e[name][j][i])],
                                          LAMBDA row : row)],
                      LAMBDA rows : rows)
     ELSE IF name \in Lists2 THEN HolesOfRows(e[name], LAMBDA list : list)
     ELSE IF name \in Lists3
     THEN HolesOfRows(e[name], LAMBDA lists : HolesOfRows(lists, LAMBDA list : list))
     ELSE e[name]]

\* variant with a slip: the layers of the document are not copied
Lysergic_fromJSON_NoLayers(data, strict) ==
  LET new == Lysergic_constructor(TRUE, strict)
  IN [key \in DOMAIN new |->
        IF key \in DOMAIN data \ {"layers"} THEN data[key] ELSE new[key]]

\* Lysergic.fromJSON(json): a new engine, every key of the document assigned
Lysergic_fromJSON(data, strict) ==
  LET new == Lysergic_constructor(TRUE, strict)
  IN [key \in DOMAIN new |-> IF key \in DOMAIN data THEN data[key] ELSE new[key]]

\* Lysergic.clone()
Lysergic_clone(e) == Lysergic_fromJSON(Lysergic_toJSON(e), e.strict)

\* engine = engine.clone(), the last call of a scenario: a clone does not
\* grow the network, so it may follow the last construction call
LysergicClone ==
  /\ impl = "Lysergic" /\ calls <= MaxCalls
  /\ engine' = Lysergic_clone(engine)
  /\ call' = Call("clone", Null, Null, Null, Null, FALSE, FALSE, NoException)
  /\ calls' = MaxCalls + 1
  /\ UNCHANGED <<impl, topology, allocator, ast>>

CloneInit == Init /\ impl = "Lysergic"

CloneNext ==
  \/ LysergicAddUnit
  \/ LysergicAddConnection
  \/ LysergicAddGate
  \/ LysergicAddLayer
  \/ LysergicLock
  \/ LysergicClone

CloneSpec == CloneInit /\ [][CloneNext]_vars



\* ------------------------------------------------------------- properties
\* the network object of this behaviour and the number of its units
Net == IF impl = "Topology" THEN topology ELSE engine
NetUnits == IF impl = "Topology" THEN topology.units ELSE engine.size

NoDuplicates(arr) == \A x, y \in 1..Len(arr) : arr[x] = arr[y] => x = y

\* arr holds exactly the members of S, each once
HoldsExactly(arr, S) == Range(arr) = S /\ NoDuplicates(arr)

Connections == Range(Net.connections)
Gates == Range(Net.gates)

\* the network is under construction: every call so far was addUnit,
\* addConnection, addGate or addLayer, or a lock() that did not complete
Building == ~engine.locked

\* C1: after any sequence of addUnit / addConnection / addGate calls, for every
\* unit u, inputsOf[u] holds exactly the from-endpoints of the connections whose
\* to is u, each exactly once.
C1_InputsOfExact ==
  Building =>
    /\ DOMAIN Net.inputsOf = Units(NetUnits)
    /\ \A u \in Units(NetUnits) :
         HoldsExactly(Net.inputsOf[u], {c.from : c \in {d \in Connections : d.to = u}})

\* a unit with two inputs, just after a repeated identical addConnection call
C1_Witness ==
  /\ call.op = "addConnection" /\ call.returned
  /\ \E u \in Units(NetUnits) : Len(Net.inputsOf[u]) >= 2

\* C2: in every state reachable through addUnit, addConnection and addGate, for
\* every unit u, projectedBy[u] is exactly the set of to-endpoints of the
\* connections leaving u, gatersOf[u] exactly the gaters of the gates whose to
\* is u, and gatedBy[u] exactly the to-endpoints of the gates whose gater is u,
\* each without duplicates.
C2_BaseSetsExact ==
  Building => \A u \in Units(NetUnits) :
    /\ HoldsExactly(Net.projectedBy[u], {c.to : c \in {d \in Connections : d.from = u}})
    /\ HoldsExactly(Net.gatersOf[u], {g.gater : g \in {h \in Gates : h.to = u}})
    /\ HoldsExactly(Net.gatedBy[u], {g.to : g \in {h \in Gates : h.gater = u}})

\* a gate whose gater is neither end of the gated connection was just added, and
\* a unit that is no argument of the call has a projection
C2_Witness ==
  /\ call.op = "addGate" /\ ~call.returned
  /\ call.gater # call.from /\ call.gater # call.to
  /\ \E u \in Units(NetUnits) \ {call.from, call.to, call.gater} :
       Len(Net.projectedBy[u]) > 0

InputsOfGatedBy(k, j) == Range(GetOrEmpty(Net.inputsOfGatedBy[k], j))

DerivativeTerm(k, j) ==
  IF impl = "Topology" THEN Heap_getVariable(topology.heap, <<"derivativeTerm", k, j>>)
  ELSE Get(engine.derivativeTerm[k], j)

Cell2(name, j, i) ==
  IF impl = "Topology" THEN Heap_getVariable(topology.heap, <<name, j, i>>)
  ELSE IF j \in DOMAIN engine[name] THEN Get(engine[name][j], i) ELSE Undefined

\* C6: addConnection(from, to, w2) called when connection (from,to) already
\* exists changes nothing (connection list, weight, gain, elegibilityTrace,
\* allocation count, adjacency sets: the whole object), and the connection list
\* never holds two entries with the same ordered pair.
C6_DuplicateConnectionIsNoOp ==
  /\ [][(call'.op = "addConnection"
         /\ someConnection(Net.connections, call'.from, call'.to))
        => (topology' = topology /\ engine' = engine)]_vars
  /\ [](NoDuplicates(Net.connections))

\* addConnection was just called on an existing pair with another weight than
\* the one the cell holds
C6_Witness ==
  /\ Building
  /\ call.op = "addConnection" /\ call.returned /\ call.from # call.to
  /\ call.weight # Null /\ Cell2("weight", call.to, call.from) # call.weight

\* C7: addGate(from, to, g2) called when (from,to) is already gated by some g1
\* changes nothing (gate list, gatersOf, gatedBy, inputsOfGatedBy,
\* derivativeTerm, heap: the whole object), and the gate list never holds two
\* entries with the same (from,to).
C7_DuplicateGateIsNoOp ==
  /\ [][(call'.op = "addGate" /\ someGate(Net.gates, call'.from, call'.to))
        => (topology' = topology /\ engine' = engine)]_vars
  /\ [](\A x, y \in 1..Len(Net.gates) :
          (Net.gates[x].from = Net.gates[y].from /\ Net.gates[x].to = Net.gates[y].to)
          => x = y)

\* addGate was just called on a pair that another gater already gates
C7_Witness ==
  /\ call.op = "addGate" /\ call.returned
  /\ \E g \in Gates : g.from = call.from /\ g.to = call.to /\ g.gater # call.gater

\* C8: addGate(biasUnit, x, gater) is a no-op for every x and gater, and no
\* reachable state holds a gate whose from is the bias unit.
C8_BiasNeverGated ==
  /\ [][(call'.op = "addGate" /\ call'.from = Net.biasUnit)
        => (topology' = topology /\ engine' = engine)]_vars
  /\ [](\A g \in Gates : g.from # Net.biasUnit)

\* addGate was just called on a connection from the bias unit that exists and
\* that no gate was recorded for
C8_Witness ==
  /\ call.op = "addGate" /\ call.from = Net.biasUnit
  /\ Connection(call.from, call.to) \in Connections
  /\ ~someGate(Net.gates, call.from, call.to)

\* C9: for every unit u and every supplied weight (an absent one too), once
\* addConnection(u, u, w) was called the cell weight[u][u] has initial value 1,
\* whatever addUnit / addConnection / addGate calls follow.
C9_SelfConnectionWeight ==
  Building =>
    \A u \in Units(NetUnits) :
      Connection(u, u) \in Connections => Cell2("weight", u, u) = 1

\* a self-connection was just made with a supplied weight other than 1
C9_Witness ==
  /\ Building
  /\ \E u \in Units(NetUnits) : Connection(u, u) \in Connections
  /\ call.op = "addConnection" /\ call.from = call.to /\ call.weight = 5
  /\ ~call.returned

\* the units, connections, gates, adjacency sets and heap of the engine
Network(e) ==
  <<e.size, e.connections, e.gates, e.inputsOf, e.projectedBy, e.gatersOf,
    e.gatedBy, e.inputsOfGatedBy, e.inputSet, e.projectionSet, e.gateSet,
    e.allocCount, e.variables, e.memory>>

\* C10 as stated: once the network is locked, each of addUnit, addConnection
\* and addGate ends with an error, and the units, connections, gates, adjacency
\* sets and heap are as they were before the call.
C10_MutationAfterLockRejected ==
  [][(engine.locked /\ call'.op \in {"addUnit", "addConnection", "addGate"})
     => (call'.exception # NoException /\ Network(engine') = Network(engine))]_vars

\* what a build leaves behind: the emitted AST, the cells with their ids,
\* the allocation count and the buffer
Built(e) == <<e.AST, e.variables, e.allocCount, e.memory>>

\* C11 as stated: a build trigger (lock, getAST, getVariables) on a network that
\* is already built is a no-op: the emitted AST, the cell ids, the allocation
\* count and every value in the buffer are the same after it as before.
C11_RebuildIsNoOp ==
  [][(engine.locked /\ call'.op \in {"lock", "getAST", "getVariables"})
       => Built(engine') = Built(engine)]_vars

\* C12 as stated: for any name and any values, the second allocation of a name
\* returns a handle with the id the first one returned and the two allocations
\* together raise the allocation count by exactly one; once a name was
\* allocated getVariable never raises for it; two different allocated names
\* never share an id.
C12_AllocTwice(key) ==
  IF key \in DOMAIN allocator.first
  THEN /\ allocator'.handle = allocator.first[key]
       /\ allocator'.store.allocationCount = allocator.store.allocationCount
  ELSE allocator'.store.allocationCount = allocator.store.allocationCount + 1

C12_DistinctIds(h) ==
  \A k1 \in DOMAIN h.first, k2 \in DOMAIN h.first :
    k1 # k2 => HandleId(h.store, k1) # HandleId(h.store, k2)

C12_IdempotentAllocation ==
  [][/\ call'.op = "setVariable" => C12_AllocTwice(call'.from)
     /\ (call'.op = "getVariable" /\ call'.from \in DOMAIN allocator.first)
          => call'.exception = NoException
     /\ C12_DistinctIds(allocator')]_vars

\* C13 as stated: when a name that is already allocated with initial value v1 is
\* allocated again, a numeric new value v2 becomes the stored initialValue and
\* an absent (undefined) new value leaves the stored initialValue at v1.
C13_Reallocated(h, key, v2, h2) ==
  LET v1 == h.store.variables[HeapIndexOf(h.store, key)].initialValue
      stored == h2.store.variables[HeapIndexOf(h2.store, key)].initialValue
  IN stored = IF IsNumber(v2) THEN v2 ELSE v1

C13_OverwriteUnlessAbsent ==
  [][(call'.op = "setVariable" /\ HeapIndexOf(allocator.store, call'.from) # 0)
       => C13_Reallocated(allocator, call'.from, call'.weight, allocator')]_vars

\* C14 as stated: after build with minimum size m and no buffer of the caller,
\* the buffer has max(count * 8, m) bytes, the slot at the id of every cell with
\* a numeric initial value holds that value (whatever the count), and the
\* natural-sort pass changed neither the set of cells nor an id or a value.
C14_Finalized(h, m, h2) ==
  /\ h2.buffer = Max(h.store.allocationCount * 8, m)
  /\ \A x \in DOMAIN h2.store.variables :
       LET variable == h2.store.variables[x]
       IN IsNumber(variable.initialValue)
            => MemoryRead(h2, variable.id) = variable.initialValue
  /\ Range(h2.store.variables) = Range(h.store.variables)
  /\ h2.store.allocationCount = h.store.allocationCount

C14_BuildFillsBuffer ==
  [][call'.op = "build" => C14_Finalized(allocator, call'.weight, allocator')]_vars

\* the document a finished build left behind: of the AST, or of the engine
Document ==
  IF impl = "AST" THEN (IF ast.built THEN ast.AST ELSE document)
  ELSE IF impl = "Lysergic" /\ engine.locked THEN engine.AST
  ELSE document

\* the names of the blocks of routine fn, in the order they were emitted
BlockNames(AST, fn) ==
  IF \E x \in DOMAIN AST : AST[x].name = fn
  THEN LET body == AST[CHOOSE x \in DOMAIN AST : AST[x].name = fn].body
       IN [y \in 1..Len(body) |-> body[y].name]
  ELSE << >>

\* the pass a block belongs to, by its name
PassOf(name) ==
  CASE name[1] \in {"State", "ActivationState"} -> 1
    [] name[1] = "Activation" -> 2
    [] name[1] \in {"Whole Layer Activation", "Softmax"} -> 3
    [] name[1] = "Activation derivative" -> 4
    [] name[1] = "Traces of" -> 5
    [] OTHER -> 0

\* C15 as stated: in the emitted activate routine the blocks of a layer L >= 1
\* come in the order compute-state, activation, whole-layer activation,
\* activation derivative, traces, and every block of a layer comes before
\* every block of the next layer.
C15_PassOrder ==
  LET names == BlockNames(Document, "activate")
  IN \A p \in DOMAIN names, q \in DOMAIN names :
       p < q => /\ names[p][2] <= names[q][2]
                /\ (names[p][2] = names[q][2] /\ names[p][2] >= 1)
                     => PassOf(names[p]) <= PassOf(names[q])

\* a build has finished: ast.build() returned, or lock() returned
IsBuilt ==
  \/ impl = "AST" /\ ast.built
  \/ impl = "Lysergic" /\ engine.locked /\ engine.AST # document

\* the layers the build ran over, and the object holding its three lists
Layers == IF impl = "AST" THEN topology.layers ELSE engine.layers

Lists == IF impl = "AST" THEN ast ELSE engine

\* the activation cells of the units of layer x, in layer order
ActivationCells(x) == [y \in 1..Len(Layers[x]) |-> <<"activation", Layers[x][y]>>]

\* C16 as stated: after a build over at least one layer, no block of the
\* activate routine belongs to layer 0 (no compute-state, activation,
\* activation-derivative or trace block, and nothing else built for its
\* units), and the inputs list is the activation cells of the layer-0 units.
C16_InputLayerOnlyInputs ==
  (IsBuilt /\ Len(Layers) >= 1)
    => /\ \A p \in DOMAIN BlockNames(Document, "activate") :
            BlockNames(Document, "activate")[p][2] # 0
       /\ Lists.inputs = ActivationCells(1)

\* the Propagation blocks of the layers from the output layer down to layer 1,
\* every layer from its last unit to its first
PropagationOrder ==
  LET n == Len(Layers)
      blocks(x) == [y \in 1..Len(Layers[x]) |->
                      <<"Propagation", x - 1, Layers[x][Len(Layers[x]) + 1 - y]>>]
  IN ConcatAll([z \in 1..(n - 1) |-> blocks(n + 1 - z)])

\* C17: after a build over at least two layers the propagate routine is one
\* Propagation block per unit of the output layer in decreasing position,
\* then the hidden layers from the last one down to layer 1, each in
\* decreasing position, and no block for a unit of layer 0.
C17_PropagationOrder ==
  (IsBuilt /\ Len(Layers) >= 2) => BlockNames(Document, "propagate") = PropagationOrder

\* a build of part_000 over three layers, two hidden and two output units
C17_Witness ==
  /\ impl = "AST" /\ ast.built /\ ast.rev = "part_000"
  /\ Len(Layers) = 3 /\ Len(Layers[2]) = 2 /\ Len(Layers[3]) = 2
  /\ Len(BlockNames(Document, "propagate")) = 4

\* the block of the propagate routine for unit j of the output layer, and the
\* target cell its first statement reads: errorResponsibility = target - activation
PropagationBlock(j) ==
  LET body == Document[CHOOSE x \in DOMAIN Document : Document[x].name = "propagate"].body
  IN body[CHOOSE y \in DOMAIN body : body[y].name = <<"Propagation", Len(Layers) - 1, j>>]

TargetRead(i) == PropagationBlock(Layers[Len(Layers)][i]).children[1][4][3]

\* the three lists against the layers of the topology
ListsMatch ==
  /\ Lists.inputs = ActivationCells(1)
  /\ Lists.outputs = ActivationCells(Len(Layers))
  /\ Len(Lists.targets) = Len(Layers[Len(Layers)])
  /\ \A i \in DOMAIN Lists.targets : Lists.targets[i] = TargetRead(i)

\* the cells of the built network, and the memory slot of a cell
Cells ==
  IF impl = "AST" THEN {ast.heap.variables[x].key : x \in DOMAIN ast.heap.variables}
  ELSE {engine.variables[x].key : x \in DOMAIN engine.variables}

Mem(key) ==
  IF impl = "AST" THEN MemoryRead(allocator, HandleId(ast.heap, key))
  ELSE MemoryGet(engine.memory,
                 engine.variables[VariableIndexOf(engine.variables, key)].id)

\* C18 as stated: after a build, inputs[i] / outputs[i] are the activation
\* cells of the i-th unit of layer 0 / of the output layer and targets[i] is
\* the target cell read by the Propagation block of the i-th output unit; a
\* setTargets(t) that returns leaves t[i] in the cell the block of output unit
\* i reads; setInputs and setTargets change no cell outside their list.
C18_ListsAndWrites ==
  [][/\ IsBuilt' => ListsMatch'
     /\ (IsBuilt /\ call'.op = "setTargets" /\ call'.exception = NoException)
          => \A i \in DOMAIN Layers[Len(Layers)] :
               i <= Len(call'.weight) => Mem(TargetRead(i))' = call'.weight[i]
     /\ (IsBuilt /\ call'.op \in {"setInputs", "setTargets"})
          => \A key \in Cells :
               key \notin Range(IF call'.op = "setInputs" THEN Lists.inputs
                                ELSE Lists.targets)
                 => Mem(key)' = Mem(key)]_vars

\* the slots of the cell arrays of an engine that hold a value, as keys
CellKeys(e) ==
  LET indexes(slot, a) == 0..(SlotLength(e, slot, a) - 1)
      keys == {<<name, x>> : name \in Cells1, x \in 0..(e.size - 1)}
              \cup {<<name, j, i>> : name \in Cells2, j \in 0..(e.size - 1),
                                     i \in 0..(e.size - 1)}
  IN {key \in keys :
        /\ key[Len(key)] \in indexes(SubSeq(key, 1, Len(key) - 1),
                                      IF Len(key) = 2 THEN e[key[1]]
                                      ELSE e[key[1]][key[2]])
        /\ ReadCell(e, key) # Undefined}

\* b is the network a is: connections, gates, layers, adjacency sets, bias
\* unit, and the value of every cell of a
SameNetwork(a, b) ==
  /\ \A name \in Plain : b[name] = a[name]
  /\ \A name \in Lists2 \cup Kinds : \A unit \in 0..(a.size - 1) : b[name][unit] = a[name][unit]
  /\ \A k \in DOMAIN a.inputsOfGatedBy : \A j \in DOMAIN a.inputsOfGatedBy[k] :
       b.inputsOfGatedBy[k][j] = a.inputsOfGatedBy[k][j]
  /\ \A key \in CellKeys(a) : ReadCell(b, key) = ReadCell(a, key)
  /\ \A j \in DOMAIN a.extendedElegibilityTrace :
       \A i \in DOMAIN a.extendedElegibilityTrace[j] :
         \A k \in DOMAIN a.extendedElegibilityTrace[j][i] :
           ReadCell(b, <<"extendedElegibilityTrace", j, i, k>>)
             = ReadCell(a, <<"extendedElegibilityTrace", j, i, k>>)

Largest(values) == CHOOSE v \in Range(values) : \A w \in Range(values) : w <= v

\* C20 as stated: once the maximum-finding statements of a softmax block have
\* run, the maximum cell holds the largest state value of the units of the
\* bucket, whatever the state values are.
C20_SoftmaxMaximum ==
  call.op = "softmaxMaximum" => call.to = Largest(call.weight)

\* the body of the activate routine of the built network
ActivateBody ==
  IF \E x \in DOMAIN Document : Document[x].name = "activate"
  THEN Document[CHOOSE x \in DOMAIN Document : Document[x].name = "activate"].body
  ELSE << >>

\* the places in the activate routine of the blocks a softmax emitted
SoftmaxBlocks ==
  {p \in DOMAIN ActivateBody :
     \/ ActivateBody[p].name[1] = "Softmax"
     \/ /\ ActivateBody[p].name[1] = "Whole Layer Activation"
        /\ ActivateBody[p].name[3] = SOFTMAX}

\* the units of the bucket of a softmax block, in layer order
BucketUnits(p) ==
  SelectSeq(topology.layers[ActivateBody[p].name[2] + 1],
            LAMBDA u : topology.activationFunction[u] = SOFTMAX)

\* the statements of a block that assign a derivative cell, in order
DerivativeStatements(p) ==
  SelectSeq(ActivateBody[p].children, LAMBDA s : s[3][1] = "derivative")

\* derivative[i] = activation[i] * (1 - activation[i]), then
\* derivative[i] -= activation[j] * activation[i] for every other unit j
SoftmaxDerivative(units) ==
  LET activation(x) == <<"activation", units[x]>>
      derivative(x) == <<"derivative", units[x]>>
      others(x) == SelectSeq([y \in 1..Len(units) |-> y], LAMBDA y : y # x)
  IN ConcatAll([x \in 1..Len(units) |->
       <<assign(derivative(x), mul(activation(x), sub(number(1), activation(x))))>>
       \o [z \in 1..Len(others(x)) |->
             assignSub(derivative(x), mul(activation(others(x)[z]), activation(x)))]])

\* C21 as stated: in every softmax block of a built AST the derivative
\* statements are, for every unit i of the bucket, derivative[i] =
\* activation[i] * (1 - activation[i]) followed by one subtraction of
\* activation[j] * activation[i] per other unit j; every operand is an
\* activation cell.
C21_SoftmaxDerivative ==
  (impl = "AST" /\ ast.built)
    => \A p \in SoftmaxBlocks : DerivativeStatements(p) = SoftmaxDerivative(BucketUnits(p))

\* the maximum, over a memory, of the activations of the inputs of unit u,
\* and the Kronecker delta of the activation of input i and that maximum
PoolMaximum(u, memory) ==
  Largest([x \in DOMAIN topology.inputsOf[u] |->
             memory[<<"activation", topology.inputsOf[u][x]>>]])

PoolDelta(u, i, memory) ==
  IF memory[<<"activation", i>>] = PoolMaximum(u, memory) THEN 1 ELSE 0

\* the last pooling unit of the layer that has unit i among its inputs
LastPooling(layer, i) ==
  LET units == PoolingUnits(layer)
      last == CHOOSE x \in DOMAIN units :
                /\ i \in Range(topology.inputsOf[units[x]])
                /\ \A y \in DOMAIN units :
                     i \in Range(topology.inputsOf[units[y]]) => y <= x
  IN units[last]

GatedTopology(plan, bias, x) ==
  LET gate(t2, from, to, gater) ==
        Topology_addGate(
          Topology_addConnection(Topology_addConnection(t2, gater, gater, Null),
                                 from, to, Null),
          from, to, gater)
      gates(t2) == gate(t2, t2.layers[1][1], t2.layers[Len(t2.layers)][1], t2.layers[x][1])
  IN gates(LayeredTopology(plan, bias, FALSE))

GateInit ==
  /\ impl = "AST"
  /\ \E plan \in LayerPlans(MaxLayers) :
       /\ Len(plan) >= 2
       /\ \E x \in 1..Len(plan) : topology = GatedTopology(plan, FALSE, x)
  /\ engine = Lysergic_constructor(TRUE, TRUE)
  /\ ast \in {NewAST(rev, NewHeap) : rev \in Revisions}
  /\ allocator = HeapUnderTest("Heap")
  /\ call = Call("new", Null, Null, Null, Null, FALSE, FALSE, NoException)
  /\ calls = 0

GateNext == ASTDeclareLearningRate \/ ASTBuild

GateSpec == GateInit /\ [][GateNext]_vars

\* the statements of the activate routine, in the order they run
ActivateStatements ==
  ConcatAll([p \in DOMAIN ActivateBody |-> ActivateBody[p].children])

\* the places of the statements of activate that write a cell
Writes(statements, key) ==
  {p \in DOMAIN statements :
     /\ statements[p][1] = "binary"
     /\ statements[p][2] \in {"=", "+=", "-=", "*="}
     /\ statements[p][3] = key}

\* the gates whose connection exists
LiveGates ==
  {g \in Range(topology.gates) : someConnection(topology.connections, g.from, g.to)}

\* activate assigns activation[gater] to gain[to][from], after its last write
\* of activation[gater]
GainFollowsGater(statements, g) ==
  \E p \in DOMAIN statements :
    /\ statements[p] = assign(<<"gain", g.to, g.from>>, <<"activation", g.gater>>)
    /\ \A q \in Writes(statements, <<"activation", g.gater>>) : q < p

\* the number of the layer of a unit
LayerOf(u) ==
  CHOOSE x \in 0..(Len(topology.layers) - 1) : u \in Range(topology.layers[x + 1])

\* the units whose trace block the builder skips
Pooled(u) == ast.rev = "part_000" /\ topology.activationFunction[u] = MAX_POOLING

\* C23 as stated: for every gate whose connection exists, a built activate
\* routine assigns activation[gater] to gain[to][from] once the gater's
\* activation is computed, whatever layer the gater is in.
C23_Original ==
  ast.built => \A g \in LiveGates : GainFollowsGater(ActivateStatements, g)

\* C23: for every gate whose connection exists and whose gater is in a layer
\* other than layer 0 and has its trace block built (it is not a max-pooling
\* unit), a built activate routine assigns activation[gater] to gain[to][from]
\* after its last write of activation[gater].
C23_GainFollowsGater ==
  ast.built =>
    \A g \in LiveGates :
      (LayerOf(g.gater) # 0 /\ ~Pooled(g.gater))
        => GainFollowsGater(ActivateStatements, g)

\* a built network whose gater is a hidden unit
C23_Witness ==
  /\ ast.built
  /\ \E g \in LiveGates :
       /\ LayerOf(g.gater) \notin {0, Len(topology.layers) - 1}
       /\ ~Pooled(g.gater)
       /\ GainFollowsGater(ActivateStatements, g)

\* the statements of the propagate routine, in the order they run
PropagateStatements ==
  LET fns == {x \in DOMAIN Document : Document[x].name = "propagate"}
      concat(body) == ConcatAll([p \in DOMAIN body |-> body[p].children])
  IN IF fns = {} THEN << >> ELSE concat(Document[CHOOSE x \in fns : TRUE].body)

\* the connections no gate is attached to
Ungated ==
  {c \in Range(topology.connections) : ~someGate(topology.gates, c.from, c.to)}

\* no statement of the two routines writes the cell
NeverWritten(activate, propagate, key) ==
  Writes(activate, key) = {} /\ Writes(propagate, key) = {}

\* C24: for every connection with no gate, no statement of the emitted activate
\* or propagate routine assigns gain[to][from], and the cell is allocated with
\* the value 1, so the gain is 1 after any number of runs.
C24_UngatedGainUntouched ==
  impl = "AST" =>
    \A c \in Ungated :
      /\ NeverWritten(ActivateStatements, PropagateStatements, <<"gain", c.to, c.from>>)
      /\ Heap_getVariable(topology.heap, <<"gain", c.to, c.from>>) = 1

\* a built network with an ungated connection into a unit that also has a
\* gated connection whose gain the activate routine writes
C24_Witness ==
  /\ impl = "AST" /\ ast.built
  /\ \E c \in Ungated, g \in LiveGates :
       /\ c.to = g.to /\ c.from # c.to
       /\ Writes(ActivateStatements, <<"gain", g.to, g.from>>) # {}

\* the initial value of weight[j][i] in a network, Undefined when never set
WeightOf(net, j, i) ==
  IF impl = "Topology" THEN Heap_getVariable(net.heap, <<"weight", j, i>>)
  ELSE IF j \in DOMAIN net.weight THEN Get(net.weight[j], i) ELSE Undefined

\* C25 as stated: addConnection(from, to, weight) with from # to on a new pair
\* leaves weight[to][from] at the supplied weight and never at a value drawn
\* from the random generator, and the bias connection addUnit creates has
\* weight 1.
C25_SuppliedWeight ==
  [][/\ (/\ call'.op = "addConnection" /\ call'.exception = NoException
         /\ call'.from # call'.to
         /\ ~someConnection(Net.connections, call'.from, call'.to))
          => /\ WeightOf(Net', call'.to, call'.from) # Random
             /\ call'.weight # Null
                  => WeightOf(Net', call'.to, call'.from) = call'.weight
     /\ (/\ call'.op = "addUnit" /\ call'.exception = NoException
         /\ call'.bias /\ Net.biasUnit # Null)
          => WeightOf(Net', NetUnits, Net.biasUnit) = 1]_vars

\* the initial value of extendedElegibilityTrace[j][i][k], Undefined when the
\* cell was never set
ExtendedTrace(j, i, k) ==
  IF impl = "Topology"
  THEN Heap_getVariable(topology.heap, <<"extendedElegibilityTrace", j, i, k>>)
  ELSE IF j \in DOMAIN engine.extendedElegibilityTrace
          /\ i \in DOMAIN engine.extendedElegibilityTrace[j]
       THEN Get(engine.extendedElegibilityTrace[j][i], k)
       ELSE Undefined

\* C26: while the network is under construction, for every unit j, every i in
\* inputsOf[j] and every k in gatedBy[j], the cell
\* extendedElegibilityTrace[j][i][k] is allocated with initial value 0,
\* whatever the order in which the connection into j and the gate by j were
\* added.
C26_ExtendedTracesAllocated ==
  Building =>
    \A j \in Units(NetUnits) :
      \A i \in Range(GetOrEmpty(Net.inputsOf, j)), k \in Range(GetOrEmpty(Net.gatedBy, j)) :
        ExtendedTrace(j, i, k) = 0

\* a connection was just added into a unit that already gated a connection
C26_Witness ==
  /\ Building
  /\ call.op = "addConnection" /\ ~call.returned /\ call.exception = NoException
  /\ call.from # call.to
  /\ Range(GetOrEmpty(Net.gatedBy, call.to)) # {}
  /\ \A k \in Range(GetOrEmpty(Net.gatedBy, call.to)) :
       ExtendedTrace(call.to, call.from, k) = 0

\* a gate was just added whose gater already had an input
C26_Witness_GateLast ==
  /\ Building
  /\ call.op = "addGate" /\ ~call.returned /\ call.exception = NoException
  /\ Range(GetOrEmpty(Net.inputsOf, call.gater)) # {}
  /\ \A i \in Range(GetOrEmpty(Net.inputsOf, call.gater)) :
       ExtendedTrace(call.gater, i, call.to) = 0

\* ------------------------------------------------------ Topology.normalize
\* normalize2D: `for (let i in arr) arr[i] = arr[i] || []` visits the slots
\* the array has; an array, even an empty one, is truthy and stays
normalize2D(arr) == [i \in DOMAIN arr |-> arr[i]]

\* normalize3D: the same one level down, over the slots each row has
normalize3D(arr) == [i \in DOMAIN arr |-> [x \in DOMAIN arr[i] |-> arr[i][x]]]

\* Topology.normalize()
Topology_normalize(t) ==
  [t EXCEPT !.inputsOf = normalize2D(@),
            !.projectedBy = normalize2D(@),
            !.gatersOf = normalize2D(@),
            !.gatedBy = normalize2D(@),
            !.inputsOfGatedBy = normalize3D(@),
            !.projectionSet = normalize2D(@),
            !.gateSet = normalize2D(@),
            !.inputSet = normalize2D(@),
            !.layers = normalize2D(@)]

TopologyNormalize ==
  /\ impl = "Topology" /\ calls < MaxCalls
  /\ topology' = Topology_normalize(topology)
  /\ call' = Call("normalize", Null, Null, Null, Null, FALSE, FALSE, NoException)
  /\ calls' = calls + 1
  /\ UNCHANGED <<impl, engine, allocator, ast>>

NormalizeInit == Init /\ impl = "Topology"

NormalizeNext ==
  \/ TopologyAddUnit
  \/ TopologyAddConnection
  \/ TopologyAddGate
  \/ TopologyAddLayer
  \/ TopologyNormalize

NormalizeSpec == NormalizeInit /\ [][NormalizeNext]_vars

\* the two-dimensional adjacency arrays the builder indexes by unit
Adjacency ==
  {"inputsOf", "projectedBy", "gatersOf", "gatedBy", "inputSet", "projectionSet", "gateSet"}

\* C27 as stated: after normalize(), for every unit u the slots inputsOf[u],
\* projectedBy[u], gatersOf[u], gatedBy[u], inputSet[u], projectionSet[u] and
\* gateSet[u] are arrays, and for every unit j and every k in gatedBy[j] the
\* slot inputsOfGatedBy[k][j] is an array, also when k has no incoming
\* connection.
C27_SlotsAreArrays ==
  call.op = "normalize" =>
    /\ \A u \in Units(topology.units), slot \in Adjacency : u \in DOMAIN topology[slot]
    /\ \A j \in Units(topology.units) :
         \A k \in Range(topology.gatedBy[j]) :
           k \in DOMAIN topology.inputsOfGatedBy /\ j \in DOMAIN topology.inputsOfGatedBy[k]

\* ------------------------------------------------- gated self-connections
\* a layered topology of sigmoid units in which the first unit j of layer
\* x - 1 gates a connection into the first output unit k: the self-connection
\* of k (own) or the connection from the first input unit; k is self-connected
\* or not (looped)
SelfGatedTopology(plan, x, own, looped) ==
  LET loop(t2, k) == IF looped THEN Topology_addConnection(t2, k, k, Null) ELSE t2
      gate(t2, from, k, j) == Topology_addGate(loop(t2, k), IF own THEN k ELSE from, k, j)
      gates(t2) == gate(t2, t2.layers[1][1], t2.layers[Len(t2.layers)][1], t2.layers[x][1])
  IN gates(LayeredTopology(plan, FALSE, FALSE))

SelfGateInit ==
  /\ impl = "AST"
  /\ \E plan \in LayerPlans(MaxLayers), own \in BOOLEAN, looped \in BOOLEAN :
       /\ Len(plan) >= 2
       /\ \A x \in 1..Len(plan) : plan[x].activationFunction = LOGISTIC_SIGMOID
       /\ \E x \in 1..Len(plan) : topology = SelfGatedTopology(plan, x, own, looped)
  /\ engine = Lysergic_constructor(TRUE, TRUE)
  /\ ast = NewAST("part_000", NewHeap)
  /\ allocator = HeapUnderTest("Heap")
  /\ call = Call("new", Null, Null, Null, Null, FALSE, FALSE, NoException)
  /\ calls = 0

SelfGateNext == ASTDeclareLearningRate \/ ASTBuild

SelfGateSpec == SelfGateInit /\ [][SelfGateNext]_vars

\* the statements of the blocks of kind `kind` the routine fn holds for unit j
BlockStatements(fn, kind, j) ==
  LET fns == {x \in DOMAIN Document : Document[x].name = fn}
      of(body) ==
        ConcatAll([p \in DOMAIN body |->
          IF body[p].name[1] = kind /\ body[p].name[3] = j
          THEN body[p].children ELSE << >>])
  IN IF fns = {} THEN << >> ELSE of(Document[CHOOSE x \in fns : TRUE].body)

\* bigParenthesisTermResult = state[k]
Seed(k) == assign(<<"bigParenthesisTermResult">>, <<"state", k>>)

\* the statements of a block that build the big parenthesis term of k: the
\* seed and the sums bigParenthesisTermResult += weight[k][a] * activation[a]
TermStatements(statements, k) ==
  {s \in Range(statements) :
     /\ s[1] = "binary" /\ s[3] = <<"bigParenthesisTermResult">>
     /\ \/ s = Seed(k)
        \/ /\ s[2] = "+=" /\ s[4][1] = "binary"
           /\ s[4][3][1] = "weight" /\ s[4][3][2] = k}

\* the pairs (k, j), k downstream of its gater j, for which both the trace
\* block and the propagation block of j hold a big parenthesis term
TermPairs ==
  {p \in Units(topology.units) \X Units(topology.units) :
     /\ p[1] \in Range(topology.gateSet[p[2]])
     /\ topology.inputSet[p[2]] # << >>
     /\ BlockStatements("activate", "Traces of", p[2]) # << >>
     /\ BlockStatements("propagate", "Propagation", p[2]) # << >>}

\* C28: for every pair (k, j) with k gated by j, the trace block and the
\* propagation block of j hold the same statements for the big parenthesis
\* term of k, and both start it from state[k] exactly when k is self-connected
\* and j gates the self-connection of k.
C28_SameBigParenthesisTerm ==
  \A p \in TermPairs :
    /\ TermStatements(BlockStatements("activate", "Traces of", p[2]), p[1])
         = TermStatements(BlockStatements("propagate", "Propagation", p[2]), p[1])
    /\ Seed(p[1]) \in Range(BlockStatements("propagate", "Propagation", p[2]))
         <=> /\ Connection(p[1], p[1]) \in Range(topology.connections)
             /\ Gate(p[1], p[1], p[2]) \in Range(topology.gates)

\* a built network in which a hidden unit gates the self-connection of a
\* self-connected unit, and both blocks start the term from its state
C28_Witness ==
  /\ ast.built
  /\ \E p \in TermPairs :
       /\ Gate(p[1], p[1], p[2]) \in Range(topology.gates)
       /\ Seed(p[1]) \in Range(BlockStatements("activate", "Traces of", p[2]))
       /\ Seed(p[1]) \in Range(BlockStatements("propagate", "Propagation", p[2]))

\* a built network in which the gate on the self-connection exists but the
\* unit is not self-connected: the flag is declared and nothing is seeded
C28_Witness_NoLoop ==
  /\ ast.built
  /\ \E p \in TermPairs :
       /\ Gate(p[1], p[1], p[2]) \in Range(topology.gates)
       /\ Connection(p[1], p[1]) \notin Range(topology.connections)

\* the place of the Propagation block of unit j in the propagate routine, 0
\* when it has none
PropagationPlace(j) ==
  LET names == BlockNames(Document, "propagate")
      places == {p \in DOMAIN names : names[p][1] = "Propagation" /\ names[p][3] = j}
  IN IF places = {} THEN 0 ELSE CHOOSE p \in places : TRUE

\* the units of the hidden layers
HiddenUnits ==
  UNION {Range(topology.layers[x]) : x \in 2..(Len(topology.layers) - 1)}

\* the units downstream of j whose error responsibility its block reads
Downstream(j) == Range(topology.projectionSet[j]) \cup Range(topology.gateSet[j])

\* C29: after a build over a topology made of addLayer layers, for every unit
\* j of a hidden layer and every k in projectionSet[j] or gateSet[j], the
\* Propagation block of k is in the propagate routine, before the Propagation
\* block of j.
C29_DownstreamFirst ==
  ast.built =>
    \A j \in HiddenUnits : \A k \in Downstream(j) :
      /\ PropagationPlace(k) # 0
      /\ PropagationPlace(k) < PropagationPlace(j)

\* a built network with a hidden unit that projects onto one unit and gates a
\* connection into another
C29_Witness ==
  /\ ast.built
  /\ \E j \in HiddenUnits :
       /\ Range(topology.gateSet[j]) # {}
       /\ Range(topology.projectionSet[j]) \ Range(topology.gateSet[j]) # {}
       /\ \A k \in Downstream(j) : 0 < PropagationPlace(k) /\ PropagationPlace(k) < PropagationPlace(j)

\* ------------------------------------- builds over freely wired topologies
\* the client adds a connection or a gate to the topology of the AST,
\* between any units; the last call of a run is left to the build
ASTAddConnection ==
  /\ impl = "AST" /\ calls < MaxCalls - 1
  /\ \E from \in Units(topology.units), to \in Units(topology.units) :
       /\ topology' = Topology_addConnection(topology, from, to, 5)
       /\ call' = Call("addConnection", from, to, Null, 5, FALSE,
                       someConnection(topology.connections, from, to), NoException)
  /\ calls' = calls + 1
  /\ UNCHANGED <<impl, engine, allocator, ast>>

ASTAddGate ==
  /\ impl = "AST" /\ calls < MaxCalls - 1
  /\ \E from \in Units(topology.units), to \in Units(topology.units),
        gater \in Units(topology.units) :
       /\ topology' = Topology_addGate(topology, from, to, gater)
       /\ call' = Call("addGate", from, to, gater, Null, FALSE,
                       someGate(topology.gates, from, to) \/ from = topology.biasUnit,
                       NoException)
  /\ calls' = calls + 1
  /\ UNCHANGED <<impl, engine, allocator, ast>>

\* layers of one unit each, of one kind, projected onto each other, no bias
FreeInit ==
  /\ impl = "AST"
  /\ \E plan \in LayerPlans(MaxLayers) :
       /\ Len(plan) >= 2
       /\ \A x \in 1..Len(plan) :
            plan[x].size = 1 /\ plan[x].activationFunction = plan[1].activationFunction
       /\ topology = LayeredTopology(plan, FALSE, FALSE)
  /\ engine = Lysergic_constructor(TRUE, TRUE)
  /\ ast \in {NewAST(rev, NewHeap) : rev \in Revisions}
  /\ allocator = HeapUnderTest("Heap")
  /\ call = Call("new", Null, Null, Null, Null, FALSE, FALSE, NoException)
  /\ calls = 0

FreeNext == ASTAddConnection \/ ASTAddGate \/ ASTDeclareLearningRate \/ ASTBuild

FreeSpec == FreeInit /\ [][FreeNext]_vars

\* the names of the per-unit and per-connection cells the tracker allocates
TrackedCells ==
  {"state", "activation", "derivative", "errorResponsibility",
   "projectedErrorResponsibility", "gatedErrorResponsibility", "gain", "weight",
   "elegibilityTrace", "extendedElegibilityTrace"}

\* the key of the first getVariable of a build that found no variable on the
\* heap the build stopped with, << >> when every read found one
FailedRead(effects, heap) ==
  LET failed == {p \in DOMAIN effects :
                   effects[p][1] = "getVariable" /\ HeapIndexOf(heap, effects[p][2]) = 0}
  IN IF failed = {} THEN << >>
     ELSE effects[CHOOSE p \in failed : \A q \in failed : p <= q][2]

\* C30: a build over a topology made with addLayer, addConnection and addGate
\* raises no "is not declared" error for a per-unit or per-connection cell:
\* when a build stops on a read, the cell is not one the tracker allocates.
C30_TrackedCellsDeclared ==
  (call.op = "build" /\ ast.exception = NotDeclared)
    => FailedRead(AST_buildEffects(topology, ast.rev), ast.heap)[1] \notin TrackedCells

\* a build ran to its end over a network with a gate and with a connection
\* that runs against the layer order or within a unit
C30_Witness ==
  /\ call.op = "build" /\ ast.built
  /\ topology.gates # << >>
  /\ \E c \in Range(topology.connections) : c.from >= c.to

====
